---- MODULE Spec2Model ----
(***************************************************************************)
(* Model of the timetable generator of slymn80/timetables:                 *)
(*   - backend/app/scheduling/improved_scheduler.py  (heuristic strategy)   *)
(*   - backend/app/scheduling/cpsat_scheduler.py     (CP-SAT strategy)      *)
(*   - backend/app/routes/timetables.py              (generation driver)    *)
(*                                                                         *)
(* Spec        one run of schedule_lessons_improved on a bounded input;    *)
(* SpecDriver  generate_timetable requests on one timetable, interleaved   *)
(*             at their await points, dispatching to either strategy.      *)
(***************************************************************************)
EXTENDS Integers, Sequences, FiniteSets, TLC

\* ------------------------------------------------------------------ bounds
NumDays == 2        \* days of the week that carry slots
MaxPeriod == 2      \* period numbers 1..MaxPeriod on every day
MaxHours == 2       \* hours_per_week of a lesson ranges over 1..MaxHours
NumRequests == 2    \* concurrent generate_timetable requests
\* hours_per_week of the one lesson whose week cannot hold it: the grid has
\* NumDays * MaxPeriod slots, so more than ten hours stay unassigned
ManyHours == NumDays * MaxPeriod + 11

\* --------------------------------------------------------------- universe
None == "none"           \* Python None for ids and strings
NoneInt == -1            \* Python None for an Optional[int]
UNBOUND == -1000000      \* a local variable that has not been assigned yet

WeekDays == <<"monday", "tuesday", "wednesday", "thursday", "friday", "saturday", "sunday">>
Days == [i \in 1..NumDays |-> WeekDays[i]]
DaySet == {Days[i] : i \in 1..NumDays}

DayIndex(d) == CHOOSE i \in 1..7 : WeekDays[i] = d

Max(a, b) == IF a >= b THEN a ELSE b
Min(a, b) == IF a <= b THEN a ELSE b

Range(s) == {s[i] : i \in 1..Len(s)}

RECURSIVE SumSeq(_)
SumSeq(s) == IF s = <<>> THEN 0 ELSE s[1] + SumSeq(Tail(s))

\* ---------------------------------------------------- unavailable_slots keys
\* DAY_NUMBER_TO_NAME of improved_scheduler.py
DAY_NUMBER_TO_NAME ==
  [k \in {"1", "2", "3", "4", "5", "6", "7"} |->
     CASE k = "1" -> "monday"   [] k = "2" -> "tuesday" [] k = "3" -> "wednesday"
       [] k = "4" -> "thursday" [] k = "5" -> "friday"  [] k = "6" -> "saturday"
       [] k = "7" -> "sunday"]

\* str.lower() on the key strings that occur in the model
Lower(k) ==
  CASE k \in {"monday", "Monday", "MONDAY"} -> "monday"
    [] k \in {"tuesday", "Tuesday", "TUESDAY"} -> "tuesday"
    [] k \in {"wednesday", "Wednesday", "WEDNESDAY"} -> "wednesday"
    [] OTHER -> k

\* A JSON mapping is a sequence of <<key, set of periods>> pairs with distinct
\* keys, in the dict's iteration order; {} is the empty sequence.
RECURSIVE NormalizeItems(_, _)
NormalizeItems(items, normalized) ==
  IF items = <<>> THEN normalized
  ELSE LET key_str == items[1][1]
           periods == items[1][2]
           day_name == IF key_str \in DOMAIN DAY_NUMBER_TO_NAME
                       THEN DAY_NUMBER_TO_NAME[key_str]
                       ELSE Lower(key_str)
           \* normalized[day_name] = periods  (a later key overwrites)
           upd == [d \in (DOMAIN normalized) \cup {day_name} |->
                     IF d = day_name THEN periods ELSE normalized[d]]
       IN NormalizeItems(Tail(items), upd)

\* variant: the keys are kept as stored, neither translated nor lowercased
normalize_unavailable_slots_raw_keys(unavailable_slots) ==
  IF unavailable_slots = <<>> THEN <<>>
  ELSE [k \in {unavailable_slots[i][1] : i \in 1..Len(unavailable_slots)} |->
          unavailable_slots[CHOOSE i \in 1..Len(unavailable_slots) :
                              unavailable_slots[i][1] = k][2]]

\* normalize_unavailable_slots: the result maps lowercase day name -> periods
normalize_unavailable_slots(unavailable_slots) ==
  IF unavailable_slots = <<>> THEN <<>>
  ELSE NormalizeItems(unavailable_slots, <<>>)

\* ------------------------------------------------------------- time slots
\* The driver loads the slots ordered by (day, period_number); slot ids are
\* the positions in that list.
SlotAt(i, brk) ==
  LET d == ((i - 1) \div MaxPeriod) + 1
      p == ((i - 1) % MaxPeriod) + 1
  IN [id |-> i, day |-> Days[d], period_number |-> p, is_break |-> (<<Days[d], p>> \in brk)]

MakeSlots(brk) == [i \in 1..(NumDays * MaxPeriod) |-> SlotAt(i, brk)]

\* ------------------------------------------------------------ entity sets
Classes == {"c1", "c2"}
Teachers == {"t1", "t2"}
RoomIds == {"r1", "r2"}
LessonIds == {1, 2}
Periods == 1..MaxPeriod

\* ------------------------------------------- SchedulingConstraints (tracker)
\* SchedulingConstraints.__init__; lesson_daily_count[l][d] is kept by the code
\* in step with lesson_periods_by_day[(l, d)] and is its length.
NewConstraints ==
  [class_busy |-> {}, teacher_busy |-> {}, room_busy |-> {},
   lesson_periods_by_day |-> [k \in LessonIds \X DaySet |-> <<>>],
   class_daily_count |-> [k \in Classes \X DaySet |-> 0],
   teacher_daily_count |-> [k \in Teachers \X DaySet |-> 0],
   class_daily_difficulty |-> [k \in Classes \X DaySet |-> 0],
   class_period_difficulty |-> [k \in Classes \X DaySet \X (0..(MaxPeriod + 1)) |-> 0]]

\* the (day, period) test shared by is_class_available and is_teacher_available
InUnavailable(unavailable, day, period) ==
  /\ unavailable # <<>>
  /\ Lower(day) \in DOMAIN unavailable
  /\ period \in unavailable[Lower(day)]

is_class_available(c, slot_id, class_id, class_unavailable_slots, day, period) ==
  IF <<slot_id, class_id>> \in c.class_busy THEN FALSE
  ELSE ~InUnavailable(class_unavailable_slots, day, period)

is_teacher_available(c, slot_id, teacher_id, teacher_unavailable_slots, day, period) ==
  IF teacher_id = None THEN TRUE
  ELSE IF <<slot_id, teacher_id>> \in c.teacher_busy THEN FALSE
  ELSE ~InUnavailable(teacher_unavailable_slots, day, period)

is_room_available(c, slot_id, room_id) ==
  IF room_id = None THEN TRUE ELSE <<slot_id, room_id>> \notin c.room_busy

mark_class_busy(c, slot_id, class_id) ==
  [c EXCEPT !.class_busy = @ \cup {<<slot_id, class_id>>}]

mark_teacher_busy(c, slot_id, teacher_id) ==
  IF teacher_id # None
  THEN [c EXCEPT !.teacher_busy = @ \cup {<<slot_id, teacher_id>>}]
  ELSE c

mark_room_busy(c, slot_id, room_id) ==
  IF room_id # None
  THEN [c EXCEPT !.room_busy = @ \cup {<<slot_id, room_id>>}]
  ELSE c

add_lesson_assignment(c, lesson_id, day, period, class_id, teacher_id, difficulty_level) ==
  LET c1 == [c EXCEPT !.lesson_periods_by_day[<<lesson_id, day>>] = Append(@, period),
                      !.class_daily_count[<<class_id, day>>] = @ + 1,
                      !.class_daily_difficulty[<<class_id, day>>] = @ + difficulty_level,
                      !.class_period_difficulty[<<class_id, day, period>>] = difficulty_level]
  IN IF teacher_id # None
     THEN [c1 EXCEPT !.teacher_daily_count[<<teacher_id, day>>] = @ + 1]
     ELSE c1

would_be_consecutive(c, lesson_id, day, period) ==
  \E i \in 1..Len(c.lesson_periods_by_day[<<lesson_id, day>>]) :
     LET p == c.lesson_periods_by_day[<<lesson_id, day>>][i]
     IN p - period = 1 \/ period - p = 1

get_lesson_day_count(c, lesson_id, day) == Len(c.lesson_periods_by_day[<<lesson_id, day>>])
get_class_day_count(c, class_id, day) == c.class_daily_count[<<class_id, day>>]
get_teacher_day_count(c, teacher_id, day) == c.teacher_daily_count[<<teacher_id, day>>]

\* sorted(list) of integers, ascending
RECURSIVE InsertAsc(_, _)
InsertAsc(x, s) ==
  IF s = <<>> THEN <<x>>
  ELSE IF x < s[1] THEN <<x>> \o s ELSE <<s[1]>> \o InsertAsc(x, Tail(s))

RECURSIVE SortAsc(_)
SortAsc(s) == IF s = <<>> THEN <<>> ELSE InsertAsc(s[Len(s)], SortAsc(SubSeq(s, 1, Len(s) - 1)))

\* the scan of would_exceed_consecutive_limit: <<max count, current count>>
RECURSIVE ConsecutiveScan(_, _, _, _)
ConsecutiveScan(all_periods, i, max_count, current) ==
  IF i > Len(all_periods) THEN max_count
  ELSE IF all_periods[i] = all_periods[i - 1] + 1
       THEN ConsecutiveScan(all_periods, i + 1, Max(max_count, current + 1), current + 1)
       ELSE ConsecutiveScan(all_periods, i + 1, max_count, 1)

would_exceed_consecutive_limit(c, lesson_id, day, period, max_consecutive) ==
  LET existing_periods == SortAsc(c.lesson_periods_by_day[<<lesson_id, day>>])
      all_periods == SortAsc(existing_periods \o <<period>>)
  IN ConsecutiveScan(all_periods, 2, 1, 1) > max_consecutive

would_exceed_max_hours_per_day(c, lesson_id, day, max_hours_per_day) ==
  IF max_hours_per_day = NoneInt THEN FALSE
  ELSE get_lesson_day_count(c, lesson_id, day) >= max_hours_per_day

get_class_daily_difficulty(c, class_id, day) == c.class_daily_difficulty[<<class_id, day>>]

get_consecutive_difficulty_penalty(c, class_id, day, period, new_difficulty) ==
  LET prev_difficulty == c.class_period_difficulty[<<class_id, day, period - 1>>]
      next_difficulty == c.class_period_difficulty[<<class_id, day, period + 1>>]
      pen(d) == IF d >= 7 /\ new_difficulty >= 7 THEN 50
                ELSE IF d >= 5 /\ new_difficulty >= 7 THEN 25 ELSE 0
  IN pen(prev_difficulty) + pen(next_difficulty)

\* ------------------------------------------------------ calculate_slot_score
max_daily_lessons == 8

RECURSIVE TeacherLoadPenalty(_, _, _)
TeacherLoadPenalty(c, teacher_ids, day) ==
  IF teacher_ids = <<>> THEN 0
  ELSE (IF teacher_ids[1] # None
        THEN (IF get_teacher_day_count(c, teacher_ids[1], day) >= max_daily_lessons
              THEN 1000
              ELSE get_teacher_day_count(c, teacher_ids[1], day) * 3)
        ELSE 0) + TeacherLoadPenalty(c, Tail(teacher_ids), day)

DifficultyTimeTerm(difficulty_level, period) ==
  IF difficulty_level >= 7
  THEN (IF period <= 3 THEN 40 ELSE IF period <= 5 THEN 10 ELSE -30)
  ELSE IF difficulty_level >= 4
  THEN (IF period <= 2 THEN 15 ELSE IF period <= 6 THEN 10 ELSE -10)
  ELSE (IF period >= 6 THEN 15 ELSE IF period <= 2 THEN -5 ELSE 0)

calculate_slot_score(slot, lesson_id, class_id, teacher_ids, c, block_size, difficulty_level) ==
  LET day == slot.day
      period == slot.period_number
      lessons_on_day == get_lesson_day_count(c, lesson_id, day)
      class_lessons_on_day == get_class_day_count(c, class_id, day)
      daily_difficulty == get_class_daily_difficulty(c, class_id, day)
  IN 100
     - lessons_on_day * 20
     + (IF block_size > 1 /\ would_be_consecutive(c, lesson_id, day, period) THEN 50 ELSE 0)
     - (IF class_lessons_on_day >= max_daily_lessons THEN 1000 ELSE class_lessons_on_day * 5)
     - TeacherLoadPenalty(c, teacher_ids, day)
     + DifficultyTimeTerm(difficulty_level, period)
     - get_consecutive_difficulty_penalty(c, class_id, day, period, difficulty_level)
     - (IF daily_difficulty >= 30 THEN 40 ELSE IF daily_difficulty >= 20 THEN 20 ELSE 0)
     + (10 - period) * 2

\* ------------------------------------------------------------------ state
VARIABLES
  \* input of one scheduler run (the Snapshot the driver loaded)
  time_slots,        \* list of [id, day, period_number, is_break]
  lessons,           \* list of lesson records, in the order the driver loaded them
  rooms,             \* list of [id, room_type]
  classes,           \* class id -> [unavailable_slots, max_hours_per_day, default_room_id]
  teachers,          \* teacher id -> [unavailable_slots, default_room_id]
  max_consecutive_same_subject,   \* timetable.algorithm_parameters
  auto,              \* the loop that builds an automatic pattern, run on its own:
                     \* [pc, hours_needed, max_consecutive, remaining_hours, block_size,
                     \*  preferred_block_sizes]
  call,              \* one application of a function of the module, on its own:
                     \* [fn, pc, arg, result]
  \* schedule_lessons_improved
  pc,                \* position of the run: idle / lesson / pattern / fallback / finish / done / error
  cur,               \* index into sorted_lessons of the lesson being processed
  block_index,       \* index into preferred_block_sizes
  run,               \* [c, entries, assigned_count, hours_assigned, used_days, slot, score, via]
  hard_violations,
  \* generate_timetable and the database it works on
  algorithm,         \* timetable.algorithm
  db_status,         \* timetable.status as committed
  db_entries,        \* committed TimetableEntry rows of the timetable, in insertion order
  db_lessons,        \* committed Lesson rows (user_distribution_pattern is their extra_metadata)
  db_logs,           \* timetable.generation_logs as committed: none / run / error
  db_result,         \* [hard_constraint_violations, soft_constraint_score] as committed
  db_name,           \* timetable.name as committed
  req                \* request -> [at, status, saved, lessons, pending, assigned_count,
                     \*             hard_violations, error]: its position and its session

schedVars == <<pc, cur, block_index, run, hard_violations>>
driverVars ==
  <<algorithm, db_status, db_entries, db_lessons, db_logs, db_result, db_name, req>>
inputVars ==
  <<time_slots, lessons, rooms, classes, teachers, max_consecutive_same_subject, auto, call>>

\* no function is being applied
NoCall == [fn |-> "none", pc |-> "off", arg |-> <<>>, result |-> <<>>]

\* the loop is not under way
NoAuto ==
  [pc |-> "off", hours_needed |-> 0, max_consecutive |-> 0, remaining_hours |-> 0,
   block_size |-> 0, preferred_block_sizes |-> <<>>]

\* ----------------------------------------------------- slots_by_day (485-493)
active_slots == SelectSeq(time_slots, LAMBDA s : ~s.is_break)

RECURSIVE DistinctDays(_, _)
DistinctDays(slots, seen) ==
  IF slots = <<>> THEN <<>>
  ELSE IF slots[1].day \in seen THEN DistinctDays(Tail(slots), seen)
  ELSE <<slots[1].day>> \o DistinctDays(Tail(slots), seen \cup {slots[1].day})

\* the keys of slots_by_day in insertion order
day_keys == DistinctDays(active_slots, {})

RECURSIVE InsertByPeriod(_, _)
InsertByPeriod(x, s) ==
  IF s = <<>> THEN <<x>>
  ELSE IF x.period_number < s[1].period_number THEN <<x>> \o s
  ELSE <<s[1]>> \o InsertByPeriod(x, Tail(s))

RECURSIVE SortByPeriod(_)
SortByPeriod(s) ==
  IF s = <<>> THEN <<>> ELSE InsertByPeriod(s[Len(s)], SortByPeriod(SubSeq(s, 1, Len(s) - 1)))

slots_by_day(day) == SortByPeriod(SelectSeq(active_slots, LAMBDA s : s.day = day))

SlotById(id) == time_slots[CHOOSE i \in 1..Len(time_slots) : time_slots[i].id = id]

\* ------------------------------------------------- lesson ordering (523-543)
lesson_priority(lesson) ==
  LET difficulty == lesson.subject.difficulty_level
      hours == lesson.hours_per_week
      is_grouped == lesson.num_groups > 1
      is_single_hour == hours = 1
  IN (IF is_grouped THEN 100000 ELSE 0) + (IF is_single_hour THEN 10000 ELSE 0)
     + (difficulty * 100) + hours

\* sorted(..., key=lesson_priority, reverse=True): stable, equal keys keep input order
RECURSIVE InsertByPriority(_, _)
InsertByPriority(x, s) ==
  IF s = <<>> THEN <<x>>
  ELSE IF lesson_priority(x) > lesson_priority(s[1]) THEN <<x>> \o s
  ELSE <<s[1]>> \o InsertByPriority(x, Tail(s))

RECURSIVE SortByPriority(_)
SortByPriority(s) ==
  IF s = <<>> THEN <<>> ELSE InsertByPriority(s[Len(s)], SortByPriority(SubSeq(s, 1, Len(s) - 1)))

\* variant: the order among lessons of equal priority depends on the run
sorted_lessons_run_dependent ==
  IF req[1].at = "heuristic" THEN SortByPriority(lessons)
  ELSE SortByPriority([i \in 1..Len(lessons) |-> lessons[Len(lessons) + 1 - i]])

sorted_lessons == SortByPriority(lessons)

\* ---------------------------------------------- pattern resolution (593-637)
\* A pattern string is the list of its '+'-separated parts; int(x) succeeds on
\* the decimal numerals below.
IntOf == [x \in {ToString(n) : n \in 0..31} |-> CHOOSE n \in 0..31 : ToString(n) = x]

Parses(user_pattern) == \A i \in 1..Len(user_pattern) : user_pattern[i] \in DOMAIN IntOf

RECURSIVE InsertDescInt(_, _)
InsertDescInt(x, s) ==
  IF s = <<>> THEN <<x>>
  ELSE IF x > s[1] THEN <<x>> \o s ELSE <<s[1]>> \o InsertDescInt(x, Tail(s))

RECURSIVE SortDescInt(_)
SortDescInt(s) ==
  IF s = <<>> THEN <<>> ELSE InsertDescInt(s[Len(s)], SortDescInt(SubSeq(s, 1, Len(s) - 1)))

\* the while loop of the auto-generated pattern; block_size >= 1
RECURSIVE AutoBlocks(_, _)
AutoBlocks(remaining_hours, block_size) ==
  IF remaining_hours <= 0 THEN <<>>
  ELSE IF remaining_hours >= block_size
       THEN <<block_size>> \o AutoBlocks(remaining_hours - block_size, block_size)
       ELSE <<remaining_hours>>

\* lesson-level pattern, else subject-level pattern
selected_pattern(lesson) ==
  IF lesson.user_distribution_pattern # <<>> THEN lesson.user_distribution_pattern
  ELSE lesson.subject.default_distribution_format

preferred_block_sizes(lesson) ==
  LET user_pattern == selected_pattern(lesson)
  IN IF user_pattern # <<>> /\ Parses(user_pattern)
     THEN SortDescInt([i \in 1..Len(user_pattern) |-> IntOf[user_pattern[i]]])
     ELSE SortDescInt(AutoBlocks(lesson.hours_per_week,
                                 Min(max_consecutive_same_subject, lesson.hours_per_week)))

\* has_groups (585)
has_groups(lesson) == lesson.num_groups > 1 /\ Len(lesson.lesson_groups) > 0

\* ------------------------------------------------ get_room_for_lesson (409-458)
special_room_types == {"laboratory", "sports", "music", "art"}

RECURSIVE FirstFreeRoom(_, _, _, _, _)
FirstFreeRoom(rs, c, slot_id, requires_special, required_type) ==
  IF rs = <<>> THEN None
  ELSE IF is_room_available(c, slot_id, rs[1].id)
          /\ (requires_special => rs[1].room_type = required_type)
       THEN rs[1].id
       ELSE FirstFreeRoom(Tail(rs), c, slot_id, requires_special, required_type)

get_room_for_lesson(lesson, group_teacher_id, c, slot_id) ==
  LET class_obj == classes[lesson.class_id]
      teacher_is_lessons == group_teacher_id # None /\ lesson.teacher_id # None
                            /\ lesson.teacher_id = group_teacher_id
      requires_special == lesson.subject.requires_room_type \in special_room_types
  IN IF /\ requires_special /\ teacher_is_lessons
        /\ teachers[lesson.teacher_id].default_room_id # None
        /\ is_room_available(c, slot_id, teachers[lesson.teacher_id].default_room_id)
     THEN teachers[lesson.teacher_id].default_room_id
     ELSE IF /\ class_obj.default_room_id # None
             /\ is_room_available(c, slot_id, class_obj.default_room_id)
     THEN class_obj.default_room_id
     ELSE FirstFreeRoom(rooms, c, slot_id, requires_special, lesson.subject.requires_room_type)

\* ------------------------------------------------- per-lesson derived data
class_unavailable(lesson) == normalize_unavailable_slots(classes[lesson.class_id].unavailable_slots)

teacher_unavailable(lesson) ==
  IF lesson.teacher_id # None
  THEN normalize_unavailable_slots(teachers[lesson.teacher_id].unavailable_slots)
  ELSE <<>>

\* group_teacher_ids (650-655)
group_teacher_ids(lesson) ==
  [i \in 1..Len(lesson.lesson_groups) |->
     IF lesson.lesson_groups[i].teacher_id # None
     THEN lesson.lesson_groups[i].teacher_id ELSE lesson.teacher_id]

\* group_teacher_unavailable (657-663)
group_teacher_unavailable(lesson) ==
  [i \in 1..Len(lesson.lesson_groups) |->
     LET g == lesson.lesson_groups[i]
     IN IF g.teacher_id # None /\ teachers[g.teacher_id].unavailable_slots # <<>>
        THEN normalize_unavailable_slots(teachers[g.teacher_id].unavailable_slots)
        ELSE IF lesson.teacher_id # None /\ teachers[lesson.teacher_id].unavailable_slots # <<>>
        THEN normalize_unavailable_slots(teachers[lesson.teacher_id].unavailable_slots)
        ELSE <<>>]

\* teacher_ids handed to calculate_slot_score by the ungrouped branch
single_teacher_ids(lesson) == IF lesson.teacher_id # None THEN <<lesson.teacher_id>> ELSE <<>>

\* ------------------------------------------------------------ block windows
\* the blocks day_slots[i:i+block_size] with i + block_size <= len(day_slots),
\* over the days not in used_days, in the order the loops visit them
RECURSIVE WindowsOfDay(_, _, _)
WindowsOfDay(day_slots, i, block_size) ==
  IF i + block_size > Len(day_slots) THEN <<>>
  ELSE <<SubSeq(day_slots, i + 1, i + block_size)>> \o WindowsOfDay(day_slots, i + 1, block_size)

RECURSIVE WindowsFrom(_, _, _)
WindowsFrom(days, used_days, block_size) ==
  IF days = <<>> THEN <<>>
  ELSE (IF days[1] \in used_days THEN <<>>
        ELSE WindowsOfDay(slots_by_day(days[1]), 0, block_size))
       \o WindowsFrom(Tail(days), used_days, block_size)

Windows(used_days, block_size) == WindowsFrom(day_keys, used_days, block_size)

\* slot availability for the lesson's class and its own teacher (981-986)
SlotOkSingle(c, lesson, slot) ==
  /\ is_class_available(c, slot.id, lesson.class_id, class_unavailable(lesson),
                        slot.day, slot.period_number)
  /\ is_teacher_available(c, slot.id, lesson.teacher_id, teacher_unavailable(lesson),
                          slot.day, slot.period_number)

\* slot availability for the class and every group teacher (703-715)
SlotOkGrouped(c, lesson, slot) ==
  /\ is_class_available(c, slot.id, lesson.class_id, class_unavailable(lesson),
                        slot.day, slot.period_number)
  /\ \A idx \in 1..Len(lesson.lesson_groups) :
        is_teacher_available(c, slot.id, group_teacher_ids(lesson)[idx],
                             group_teacher_unavailable(lesson)[idx],
                             slot.day, slot.period_number)

SlotOk(c, lesson, slot) ==
  IF has_groups(lesson) THEN SlotOkGrouped(c, lesson, slot) ELSE SlotOkSingle(c, lesson, slot)

\* index of the slot at which the validation loop over the block breaks, 0 if none
FirstInvalid(c, lesson, block) ==
  IF \A i \in 1..Len(block) : SlotOk(c, lesson, block[i]) THEN 0
  ELSE CHOOSE i \in 1..Len(block) :
         /\ ~SlotOk(c, lesson, block[i])
         /\ \A j \in 1..(i - 1) : SlotOk(c, lesson, block[j])

\* the max-hours-per-day test of a block in the ungrouped pattern phase (991-995)
BlockExceedsDay(c, lesson, block) ==
  /\ would_exceed_max_hours_per_day(c, lesson.id, block[1].day, lesson.max_hours_per_day)
  /\ lesson.max_hours_per_day # NoneInt
  /\ lesson.max_hours_per_day # 0
  /\ get_lesson_day_count(c, lesson.id, block[1].day) + Len(block) > lesson.max_hours_per_day

BlockValid(c, lesson, block) ==
  /\ FirstInvalid(c, lesson, block) = 0
  /\ (has_groups(lesson) \/ ~BlockExceedsDay(c, lesson, block))

score_teacher_ids(lesson) ==
  IF has_groups(lesson) THEN group_teacher_ids(lesson) ELSE single_teacher_ids(lesson)

SlotScore(c, lesson, slot, block_size) ==
  calculate_slot_score(slot, lesson.id, lesson.class_id, score_teacher_ids(lesson), c,
                       block_size, lesson.subject.difficulty_level)

\* total_score of a block; all windows of one search have the same length, so
\* comparing avg_score = total_score / len(block) is comparing total_score
TotalScore(c, lesson, block) ==
  SumSeq([i \in 1..Len(block) |-> SlotScore(c, lesson, block[i], Len(block))])

\* the search for best_block / best_slots: the first valid window whose score
\* no valid window exceeds (avg_score > best_score keeps the earlier of equals)
BestWindow(c, lesson, ws) ==
  LET valid == {i \in 1..Len(ws) : BlockValid(c, lesson, ws[i])}
  IN IF valid = {} THEN 0
     ELSE CHOOSE i \in valid :
            /\ \A j \in valid : TotalScore(c, lesson, ws[j]) <= TotalScore(c, lesson, ws[i])
            /\ \A j \in valid : j < i => TotalScore(c, lesson, ws[j]) < TotalScore(c, lesson, ws[i])

\* the local variable `slot` after the search loops: bound by the last window's
\* validation loop (breaks at the first invalid slot) or scoring loop
SlotAfterSearch(c, lesson, ws, slot) ==
  IF ws = <<>> THEN slot
  ELSE LET w == ws[Len(ws)]
           k == FirstInvalid(c, lesson, w)
       IN IF k = 0 THEN w[Len(w)].id ELSE w[k].id

\* the local variable `score` after the search loops: the last scored slot
ScoreAfterSearch(c, lesson, ws, score) ==
  LET valid == {i \in 1..Len(ws) : BlockValid(c, lesson, ws[i])}
  IN IF valid = {} THEN score
     ELSE LET w == ws[CHOOSE i \in valid : \A j \in valid : j <= i]
          IN SlotScore(c, lesson, w[Len(w)], Len(w))

\* ------------------------------------------------------------ the run record
\* c: the SchedulingConstraints object; entries: the db.add()ed TimetableEntry
\* rows in order; hours_assigned, used_days: locals of the lesson in progress;
\* slot, score: the function-level locals `slot` and `score`, which keep their
\* last loop binding; via: ghost, <<lesson, slot, phase>> of every emission.
NewRun ==
  [c |-> NewConstraints, entries |-> <<>>, assigned_count |-> 0, hours_assigned |-> 0,
   used_days |-> {}, slot |-> 0, score |-> UNBOUND, via |-> {}]

Entry(slot_id, lesson_id, group_id, room_id) ==
  [time_slot_id |-> slot_id, lesson_id |-> lesson_id, lesson_group_id |-> group_id,
   room_id |-> room_id]

\* ------------------------------- ungrouped lesson: commit of best_block (1020-1059)
RECURSIVE AssignBlock(_, _, _, _)
AssignBlock(r, lesson, block, i) ==
  IF i > Len(block) THEN r
  ELSE LET slot == block[i]
           r1 == [r EXCEPT !.slot = slot.id]
       IN IF r1.hours_assigned >= lesson.hours_per_week THEN r1
          ELSE LET room_id == get_room_for_lesson(lesson, lesson.teacher_id, r1.c, slot.id)
               IN IF room_id # None /\ ~is_room_available(r1.c, slot.id, room_id)
                  THEN AssignBlock(r1, lesson, block, i + 1)
                  ELSE LET c1 == mark_class_busy(r1.c, slot.id, lesson.class_id)
                           c2 == mark_teacher_busy(c1, slot.id, lesson.teacher_id)
                           c3 == mark_room_busy(c2, slot.id, room_id)
                           c4 == add_lesson_assignment(c3, lesson.id, slot.day, slot.period_number,
                                     lesson.class_id, lesson.teacher_id,
                                     lesson.subject.difficulty_level)
                           r2 == [r1 EXCEPT !.c = c4,
                                    !.entries = Append(@, Entry(slot.id, lesson.id, None, room_id)),
                                    !.assigned_count = @ + 1,
                                    !.hours_assigned = @ + 1,
                                    !.via = @ \cup {<<lesson.id, slot.id, "pattern">>}]
                       IN AssignBlock(r2, lesson, block, i + 1)

\* --------------------------------- grouped lesson: commit of best_slots (738-788)
\* the rooms of all groups are resolved before any of them is marked busy
group_rooms(c, lesson, slot_id) ==
  [idx \in 1..Len(lesson.lesson_groups) |->
     get_room_for_lesson(lesson, group_teacher_ids(lesson)[idx], c, slot_id)]

RECURSIVE MarkGroups(_, _, _, _, _)
MarkGroups(c, lesson, slot_id, grooms, idx) ==
  IF idx > Len(lesson.lesson_groups) THEN c
  ELSE MarkGroups(mark_room_busy(mark_teacher_busy(c, slot_id, group_teacher_ids(lesson)[idx]),
                                 slot_id, grooms[idx]),
                  lesson, slot_id, grooms, idx + 1)

GroupEntries(lesson, slot_id, grooms) ==
  [idx \in 1..Len(lesson.lesson_groups) |->
     Entry(slot_id, lesson.id, lesson.lesson_groups[idx].id, grooms[idx])]

RECURSIVE AssignGroupedBlock(_, _, _, _)
AssignGroupedBlock(r, lesson, block, i) ==
  IF i > Len(block) THEN r
  ELSE LET slot == block[i]
           r1 == [r EXCEPT !.slot = slot.id]
       IN IF r1.hours_assigned >= lesson.hours_per_week THEN r1
          ELSE LET grooms == group_rooms(r1.c, lesson, slot.id)
                   rooms_ok == \A idx \in 1..Len(grooms) :
                                  ~(grooms[idx] # None /\ ~is_room_available(r1.c, slot.id, grooms[idx]))
               IN IF ~rooms_ok THEN AssignGroupedBlock(r1, lesson, block, i + 1)
                  ELSE LET c1 == MarkGroups(r1.c, lesson, slot.id, grooms, 1)
                           c2 == mark_class_busy(c1, slot.id, lesson.class_id)
                           c3 == add_lesson_assignment(c2, lesson.id, slot.day, slot.period_number,
                                     lesson.class_id, group_teacher_ids(lesson)[1],
                                     lesson.subject.difficulty_level)
                           r2 == [r1 EXCEPT !.c = c3,
                                    !.entries = @ \o GroupEntries(lesson, slot.id, grooms),
                                    !.assigned_count = @ + Len(lesson.lesson_groups),
                                    !.hours_assigned = @ + 1,
                                    !.via = @ \cup {<<lesson.id, slot.id, "pattern">>}]
                       IN AssignGroupedBlock(r2, lesson, block, i + 1)

\* variant: the day of a placed block is not recorded in used_days
PlaceBlock_day_reused(r, lesson, block_size) ==
  LET ws == Windows(r.used_days, block_size)
      b == BestWindow(r.c, lesson, ws)
      r0 == [r EXCEPT !.slot = SlotAfterSearch(r.c, lesson, ws, r.slot),
                      !.score = ScoreAfterSearch(r.c, lesson, ws, r.score)]
  IN IF b = 0 THEN r0
     ELSE IF has_groups(lesson) THEN AssignGroupedBlock(r0, lesson, ws[b], 1)
          ELSE AssignBlock(r0, lesson, ws[b], 1)

\* ------------------------------ one iteration of the pattern loop (674-791, 952-1062)
PlaceBlock(r, lesson, block_size) ==
  LET ws == Windows(r.used_days, block_size)
      b == BestWindow(r.c, lesson, ws)
      r0 == [r EXCEPT !.slot = SlotAfterSearch(r.c, lesson, ws, r.slot),
                      !.score = ScoreAfterSearch(r.c, lesson, ws, r.score)]
  IN IF b = 0 THEN r0
     ELSE LET best_day == ws[b][1].day
          IN IF has_groups(lesson)
             THEN [AssignGroupedBlock(r0, lesson, ws[b], 1) EXCEPT !.used_days = @ \cup {best_day}]
             ELSE LET r1 == AssignBlock(r0, lesson, ws[b], 1)
                  IN IF r1.hours_assigned > r0.hours_assigned
                     THEN [r1 EXCEPT !.used_days = @ \cup {best_day}]
                     ELSE r1

\* -------------------------- individual-slot pass: candidates (797-845, 1215-1252)
\* relax_day_constraint (1211); the grouped branch has no relaxation
relax_day_constraint(r, lesson) ==
  ~has_groups(lesson) /\ preferred_block_sizes(lesson) # <<>> /\ r.hours_assigned = 0

DaySkipped(r, lesson, day) ==
  preferred_block_sizes(lesson) # <<>> /\ day \in r.used_days /\ ~relax_day_constraint(r, lesson)

\* the days whose slots the candidate loop visits, in order
VisitedDays(r, lesson) == SelectSeq(day_keys, LAMBDA d : ~DaySkipped(r, lesson, d))

CandidateOk(r, lesson, slot) ==
  /\ SlotOk(r.c, lesson, slot)
  /\ ~would_exceed_consecutive_limit(r.c, lesson.id, slot.day, slot.period_number,
                                     max_consecutive_same_subject)
  /\ ~would_exceed_max_hours_per_day(r.c, lesson.id, slot.day, lesson.max_hours_per_day)

RECURSIVE CandidatesFrom(_, _, _)
CandidatesFrom(r, lesson, days) ==
  IF days = <<>> THEN <<>>
  ELSE LET ok == SelectSeq(slots_by_day(days[1]), LAMBDA s : CandidateOk(r, lesson, s))
       IN [i \in 1..Len(ok) |-> [score |-> SlotScore(r.c, lesson, ok[i], 1), slot |-> ok[i]]]
          \o CandidatesFrom(r, lesson, Tail(days))

\* candidate_slots.sort(key=score, reverse=True): stable
RECURSIVE InsertByScore(_, _)
InsertByScore(x, s) ==
  IF s = <<>> THEN <<x>>
  ELSE IF x.score > s[1].score THEN <<x>> \o s ELSE <<s[1]>> \o InsertByScore(x, Tail(s))

RECURSIVE SortByScore(_)
SortByScore(s) ==
  IF s = <<>> THEN <<>> ELSE InsertByScore(s[Len(s)], SortByScore(SubSeq(s, 1, Len(s) - 1)))

candidate_slots(r, lesson) == SortByScore(CandidatesFrom(r, lesson, VisitedDays(r, lesson)))

\* `slot` and `score` after the candidate-building loops
AfterCandidates(r, lesson) ==
  LET days == VisitedDays(r, lesson)
      unsorted == CandidatesFrom(r, lesson, days)
      last_day == slots_by_day(days[Len(days)])
  IN [r EXCEPT !.slot = IF days = <<>> THEN @ ELSE last_day[Len(last_day)].id,
               !.score = IF unsorted = <<>> THEN @ ELSE unsorted[Len(unsorted)].score]

\* -------------------------- ungrouped lesson: assignment loop (1255-1303)
RECURSIVE AssignIndividually(_, _, _, _, _)
AssignIndividually(r, lesson, cands, i, relax) ==
  IF i > Len(cands) THEN r
  ELSE LET slot == cands[i].slot
           r1 == [r EXCEPT !.slot = slot.id, !.score = cands[i].score]
       IN IF r1.hours_assigned >= lesson.hours_per_week THEN r1
          ELSE IF ~SlotOkSingle(r1.c, lesson, slot)
          THEN AssignIndividually(r1, lesson, cands, i + 1, relax)
          ELSE LET room_id == get_room_for_lesson(lesson, lesson.teacher_id, r1.c, slot.id)
               IN IF room_id # None /\ ~is_room_available(r1.c, slot.id, room_id)
                  THEN AssignIndividually(r1, lesson, cands, i + 1, relax)
                  ELSE LET c1 == mark_class_busy(r1.c, slot.id, lesson.class_id)
                           c2 == mark_teacher_busy(c1, slot.id, lesson.teacher_id)
                           c3 == mark_room_busy(c2, slot.id, room_id)
                           c4 == add_lesson_assignment(c3, lesson.id, slot.day, slot.period_number,
                                     lesson.class_id, lesson.teacher_id,
                                     lesson.subject.difficulty_level)
                           r2 == [r1 EXCEPT !.c = c4,
                                    !.entries = Append(@, Entry(slot.id, lesson.id, None, room_id)),
                                    !.assigned_count = @ + 1,
                                    !.used_days = IF preferred_block_sizes(lesson) # <<>> /\ ~relax
                                                  THEN @ \cup {slot.day} ELSE @,
                                    !.hours_assigned = @ + 1,
                                    !.via = @ \cup {<<lesson.id, slot.id, "fallback">>}]
                       IN AssignIndividually(r2, lesson, cands, i + 1, relax)

\* -------------------------- grouped lesson: assignment loop (848-906)
\* The statements after the construction of `entry` stand outside the loop over
\* the groups: per candidate slot one entry is added, for the last group, and
\* that group's teacher and room are marked.  hours_assigned is not changed
\* inside the loop over the candidates.
RECURSIVE AssignGroupedIndividually(_, _, _, _)
AssignGroupedIndividually(r, lesson, cands, i) ==
  IF i > Len(cands) THEN r
  ELSE LET slot == cands[i].slot
           r1 == [r EXCEPT !.slot = slot.id, !.score = cands[i].score]
           last == Len(lesson.lesson_groups)
       IN IF r1.hours_assigned >= lesson.hours_per_week THEN r1
          ELSE IF ~SlotOkGrouped(r1.c, lesson, slot)
          THEN AssignGroupedIndividually(r1, lesson, cands, i + 1)
          ELSE LET grooms == group_rooms(r1.c, lesson, slot.id)
                   rooms_ok == \A idx \in 1..Len(grooms) :
                                  ~(grooms[idx] # None /\ ~is_room_available(r1.c, slot.id, grooms[idx]))
               IN IF ~rooms_ok THEN AssignGroupedIndividually(r1, lesson, cands, i + 1)
                  ELSE LET group_teacher_id == group_teacher_ids(lesson)[last]
                           room_id == grooms[last]
                           c1 == mark_teacher_busy(r1.c, slot.id, group_teacher_id)
                           c2 == mark_room_busy(c1, slot.id, room_id)
                           c3 == add_lesson_assignment(c2, lesson.id, slot.day, slot.period_number,
                                     lesson.class_id, group_teacher_id,
                                     lesson.subject.difficulty_level)
                           r2 == [r1 EXCEPT !.c = c3,
                                    !.entries = Append(@, Entry(slot.id, lesson.id,
                                                   lesson.lesson_groups[last].id, room_id)),
                                    !.assigned_count = @ + 1,
                                    !.via = @ \cup {<<lesson.id, slot.id, "fallback">>}]
                       IN AssignGroupedIndividually(r2, lesson, cands, i + 1)

\* the statements after the loop over the candidates (911-920); they read the
\* locals `slot` and `score`, which raise UnboundLocalError when never bound
GroupedAfterLoopRaises(r) == r.slot = 0 \/ r.score = UNBOUND

GroupedAfterLoop(r, lesson) ==
  [r EXCEPT !.used_days = IF preferred_block_sizes(lesson) # <<>>
                          THEN @ \cup {SlotById(r.slot).day} ELSE @,
            !.c = mark_class_busy(@, r.slot, lesson.class_id),
            !.hours_assigned = @ + 1]

\* the whole individual-slot pass of one lesson
IndividualPass(r, lesson) ==
  LET r0 == AfterCandidates(r, lesson)
      cands == candidate_slots(r, lesson)
  IN IF has_groups(lesson)
     THEN AssignGroupedIndividually(r0, lesson, cands, 1)
     ELSE AssignIndividually(r0, lesson, cands, 1, relax_day_constraint(r, lesson))

\* ------------------------------------------------------------ bounded inputs
GroupIdOf ==
  <<<<"g11", "g12", "g13">>, <<"g21", "g22", "g23">>, <<"g31", "g32", "g33">>>>

\* subjects: [difficulty_level, default_distribution_format, requires_room_type]
SubjectChoices ==
  {[difficulty_level |-> 5, default_distribution_format |-> <<>>, requires_room_type |-> None],
   [difficulty_level |-> 8, default_distribution_format |-> <<>>, requires_room_type |-> "laboratory"]}

\* a lesson's teacher with the teachers of its groups; <<>> is an ungrouped
\* lesson, None a group without a teacher of its own
StaffChoices ==
  {[teacher_id |-> "t1", groups |-> <<>>],
   [teacher_id |-> "t2", groups |-> <<>>],
   [teacher_id |-> "t1", groups |-> <<"t1", "t2">>],
   [teacher_id |-> "t2", groups |-> <<None, None>>]}

MakeLesson(id, class_id, staff, hours, subject) ==
  [id |-> id, class_id |-> class_id, teacher_id |-> staff.teacher_id, hours_per_week |-> hours,
   num_groups |-> IF staff.groups = <<>> THEN 1 ELSE Len(staff.groups),
   lesson_groups |-> [i \in 1..Len(staff.groups) |->
                        [id |-> GroupIdOf[id][i], teacher_id |-> staff.groups[i]]],
   max_hours_per_day |-> NoneInt,
   user_distribution_pattern |-> <<>>,
   subject |-> subject]

LessonChoices(id) ==
  {MakeLesson(id, cl, st, h, sub) :
     cl \in Classes, st \in StaffChoices, h \in 1..MaxHours, sub \in SubjectChoices}

\* unavailable_slots as stored: keyed by ordinal strings or by day names
NoUnavailable == [c1 |-> <<>>, t1 |-> <<>>, t2 |-> <<>>]

UnavailableChoices ==
  {NoUnavailable,
   [c1 |-> <<<<"1", {1}>>>>, t1 |-> <<>>, t2 |-> <<>>],
   [c1 |-> <<<<"Monday", {2}>>, <<"tuesday", {1}>>>>, t1 |-> <<>>, t2 |-> <<>>],
   [c1 |-> <<>>, t1 |-> <<<<"1", {2}>>, <<"2", {2}>>>>, t2 |-> <<>>],
   [c1 |-> <<>>, t1 |-> <<<<"TUESDAY", {1}>>>>, t2 |-> <<<<"1", {1}>>>>],
   [c1 |-> <<<<"2", {2}>>>>, t1 |-> <<>>, t2 |-> <<<<"monday", {1, 2}>>, <<"2", {1}>>>>]}

\* rooms with the default rooms of class c1 and teacher t1
NoRooms == [rooms |-> <<>>, c1 |-> None, t1 |-> None]

TwoRooms ==
  <<[id |-> "r1", room_type |-> "classroom"], [id |-> "r2", room_type |-> "laboratory"]>>

RoomChoices ==
  {NoRooms, [rooms |-> TwoRooms, c1 |-> None, t1 |-> None],
   [rooms |-> TwoRooms, c1 |-> "r1", t1 |-> "r2"]}

\* break slots with Class.max_hours_per_day of c1 (column default 8)
PlainGrid == [brk |-> {}, cap |-> 8]

GridChoices == {PlainGrid, [brk |-> {}, cap |-> 1], [brk |-> {<<"monday", 2>>}, cap |-> 8]}

MaxConsecutiveChoices == {1, 2}

\* the schools of the heuristic runs: every unavailability and grid without
\* rooms, and the room set-ups on the plain grid
SchoolChoices ==
  {[rc |-> NoRooms, u |-> u, grid |-> g] : u \in UnavailableChoices, g \in GridChoices}
  \cup {[rc |-> rc, u |-> u, grid |-> PlainGrid] :
          rc \in RoomChoices,
          u \in {NoUnavailable, [c1 |-> <<>>, t1 |-> <<<<"1", {2}>>, <<"2", {2}>>>>, t2 |-> <<>>]}}

SchoolClasses(sc) ==
  [cl \in Classes |->
     IF cl = "c1"
     THEN [unavailable_slots |-> sc.u.c1, max_hours_per_day |-> sc.grid.cap,
           default_room_id |-> sc.rc.c1]
     ELSE [unavailable_slots |-> <<>>, max_hours_per_day |-> 8, default_room_id |-> None]]

SchoolTeachers(sc) ==
  [t \in Teachers |->
     IF t = "t1"
     THEN [unavailable_slots |-> sc.u.t1, default_room_id |-> sc.rc.t1]
     ELSE [unavailable_slots |-> sc.u.t2, default_room_id |-> None]]

LessonLists ==
  {ls \in [LessonIds -> UNION {LessonChoices(i) : i \in LessonIds}] :
     \A i \in LessonIds : ls[i].id = i}

InitInput ==
  /\ lessons \in LessonLists
  /\ \E sc \in SchoolChoices :
       /\ time_slots = MakeSlots(sc.grid.brk)
       /\ rooms = sc.rc.rooms
       /\ classes = SchoolClasses(sc)
       /\ teachers = SchoolTeachers(sc)
  /\ max_consecutive_same_subject \in MaxConsecutiveChoices
  /\ auto = NoAuto
  /\ call = NoCall

\* ------------------------------------------------- schedule_lessons_improved
InitSched ==
  /\ pc = "next"
  /\ cur = 0
  /\ block_index = 0
  /\ run = NewRun
  /\ hard_violations = 0

lesson == sorted_lessons[cur]
hours_needed == lesson.hours_per_week

\* for lesson in sorted_lessons: (558-667, 930-946)
StartLesson ==
  /\ pc = "next"
  /\ cur < Len(sorted_lessons)
  /\ cur' = cur + 1
  /\ block_index' = 1
  /\ run' = [run EXCEPT !.hours_assigned = 0, !.used_days = {}]
  /\ pc' = "pattern"
  /\ UNCHANGED <<hard_violations, inputVars, driverVars>>

PatternLoopRuns ==
  /\ block_index <= Len(preferred_block_sizes(lesson))
  /\ run.hours_assigned < hours_needed

\* one iteration of `for block_index, block_size in enumerate(preferred_block_sizes)`
PlacePatternBlock ==
  /\ pc = "pattern"
  /\ PatternLoopRuns
  /\ run' = PlaceBlock(run, lesson, preferred_block_sizes(lesson)[block_index])
  /\ block_index' = block_index + 1
  /\ UNCHANGED <<pc, cur, hard_violations, inputVars, driverVars>>

\* `if hours_assigned < hours_needed:` after the pattern loop (794-920, 1208-1303)
IndividualSlotPass ==
  /\ pc = "pattern"
  /\ ~PatternLoopRuns
  /\ run.hours_assigned < hours_needed
  /\ LET r == IndividualPass(run, lesson)
     IN IF has_groups(lesson)
        THEN /\ ~GroupedAfterLoopRaises(r)
             /\ run' = GroupedAfterLoop(r, lesson)
        ELSE run' = r
  /\ pc' = "finish"
  /\ UNCHANGED <<cur, block_index, hard_violations, inputVars, driverVars>>

\* the grouped pass reads `slot` or `score` before any loop bound it
IndividualSlotPassRaises ==
  /\ pc = "pattern"
  /\ ~PatternLoopRuns
  /\ run.hours_assigned < hours_needed
  /\ has_groups(lesson)
  /\ GroupedAfterLoopRaises(IndividualPass(run, lesson))
  /\ run' = IndividualPass(run, lesson)
  /\ pc' = "error"
  /\ UNCHANGED <<cur, block_index, hard_violations, inputVars, driverVars>>

\* `if hours_assigned < hours_needed: hard_violations += shortage` (922-928, 1305-1311)
FinishLesson ==
  /\ \/ pc = "finish"
     \/ pc = "pattern" /\ ~PatternLoopRuns /\ run.hours_assigned >= hours_needed
  /\ hard_violations' = IF run.hours_assigned < hours_needed
                        THEN hard_violations + (hours_needed - run.hours_assigned)
                        ELSE hard_violations
  /\ pc' = IF cur = Len(sorted_lessons) THEN "done" ELSE "next"
  /\ UNCHANGED <<cur, block_index, run, inputVars, driverVars>>

NextSched == StartLesson \/ PlacePatternBlock \/ IndividualSlotPass \/ IndividualSlotPassRaises \/ FinishLesson

vars == <<inputVars, schedVars, driverVars>>

Requests == 1..NumRequests

\* a request that has not executed its first statement
NewRequest ==
  [at |-> "start", status |-> None, saved |-> <<>>, lessons |-> <<>>, pending |-> <<>>,
   assigned_count |-> 0, hard_violations |-> 0, error |-> FALSE]

\* a run of the scheduler on its own: a generation is under way, no request moves
InitNoDriver ==
  /\ algorithm = "greedy"
  /\ db_status = "generating"
  /\ db_entries = <<>>
  /\ db_lessons = lessons
  /\ db_logs = None
  /\ db_result = [hard_constraint_violations |-> 0, soft_constraint_score |-> 0]
  /\ db_name = "a"
  /\ req = [r \in Requests |-> NewRequest]

Init == InitInput /\ InitSched /\ InitNoDriver
Next == NextSched
Spec == Init /\ [][Next]_vars

\* ------------------------------------- _save_distribution_patterns (27-84)
\* the lessons that have entries
LessonsWithEntries(entries) == {entries[i].lesson_id : i \in 1..Len(entries)}

\* len(entries_by_day[day]) of one lesson
EntriesOnDay(entries, lesson_id, day) ==
  Cardinality({i \in 1..Len(entries) :
                 /\ entries[i].lesson_id = lesson_id
                 /\ SlotById(entries[i].time_slot_id).day = day})

\* "+".join(str(size) for size in sorted(block_sizes, reverse=True))
analyzed_pattern(entries, lesson_id) ==
  LET per_day == [i \in 1..7 |-> EntriesOnDay(entries, lesson_id, WeekDays[i])]
      block_sizes == SortDescInt(SelectSeq(per_day, LAMBDA n : n > 0))
  IN [i \in 1..Len(block_sizes) |-> ToString(block_sizes[i])]

\* The session's Lesson objects after the function: every lesson with entries
\* carries the analysed pattern in its extra_metadata.
saved_patterns(entries) ==
  [id \in LessonsWithEntries(entries) |-> analyzed_pattern(entries, id)]

\* The committed rows after the function. extra_metadata is a plain JSON
\* column: the UPDATE is emitted only where the attribute was assigned, that is
\* where the stored mapping was empty (line 80); a key set in a stored non-empty
\* mapping changes the session's object alone.
persisted_lessons(rows, entries) ==
  [i \in 1..Len(rows) |->
     IF rows[i].id \in LessonsWithEntries(entries) /\ rows[i].user_distribution_pattern = <<>>
     THEN [rows[i] EXCEPT !.user_distribution_pattern = analyzed_pattern(entries, rows[i].id)]
     ELSE rows[i]]

\* the Lesson objects a later SELECT of the same session returns: objects the
\* session already holds keep their state
session_lessons(r) ==
  [i \in 1..Len(db_lessons) |->
     IF db_lessons[i].id \in DOMAIN req[r].saved
     THEN [db_lessons[i] EXCEPT !.user_distribution_pattern = req[r].saved[db_lessons[i].id]]
     ELSE db_lessons[i]]

\* ------------------------------------------ schedule_with_cpsat (cpsat_scheduler.py)
\* variant: break slots are handed to CP-SAT as well
lesson_slots_with_breaks == time_slots

\* lesson_slots of the driver (1178): the slots handed to CP-SAT
lesson_slots == SelectSeq(time_slots, LAMBDA s : ~s.is_break)

\* int(day_num_str) succeeds on every key of the mapping
int_keys(unavailable_slots) ==
  \A i \in 1..Len(unavailable_slots) : unavailable_slots[i][1] \in DOMAIN IntOf

\* constraints 4 and 6 raise ValueError on a key that is not a numeral
cpsat_raises ==
  \/ \E t \in Teachers : ~int_keys(teachers[t].unavailable_slots)
  \/ \E cl \in Classes : ~int_keys(classes[cl].unavailable_slots)

\* slot_day_num == day_num and slot.period_number in period_nums, for some key
cpsat_unavailable(unavailable_slots, slot) ==
  \E i \in 1..Len(unavailable_slots) :
    /\ IntOf[unavailable_slots[i][1]] = DayIndex(slot.day)
    /\ slot.period_number \in unavailable_slots[i][2]

\* the number of assign variables of lesson l that constraint 3 sums for teacher t
teacher_vars(l, t) ==
  IF l.lesson_groups # <<>>
  THEN Cardinality({g \in 1..Len(l.lesson_groups) : l.lesson_groups[g].teacher_id = t})
  ELSE IF l.teacher_id = t THEN 1 ELSE 0

\* variant: constraint 1 lets a lesson have fewer than hours_per_week slots
cpsat_solution_at_most_hours(ls, slots, a) ==
  LET L == 1..Len(ls)
      S == 1..Len(slots)
  IN /\ \A l \in L : Cardinality(a[l]) <= ls[l].hours_per_week
     /\ \A l1, l2 \in L :
          (l1 # l2 /\ ls[l1].class_id = ls[l2].class_id) => a[l1] \cap a[l2] = {}
     /\ \A t \in Teachers : \A s \in S :
          SumSeq([l \in L |-> IF slots[s].id \in a[l] THEN teacher_vars(ls[l], t) ELSE 0]) <= 1
     /\ \A t \in Teachers : \A s \in S : \A l \in L :
          (cpsat_unavailable(teachers[t].unavailable_slots, slots[s]) /\ teacher_vars(ls[l], t) > 0)
          => slots[s].id \notin a[l]
     /\ \A l \in L : \A s \in S :
          (/\ classes[ls[l].class_id].max_hours_per_day # 0
           /\ slots[s].period_number > classes[ls[l].class_id].max_hours_per_day)
          => slots[s].id \notin a[l]
     /\ \A l \in L : \A s \in S :
          cpsat_unavailable(classes[ls[l].class_id].unavailable_slots, slots[s])
          => slots[s].id \notin a[l]

\* An assignment gives every lesson the set of slots at which its variables
\* are 1 (constraint 0 makes the groups of a lesson agree). It is a solution
\* when constraints 1 to 6 hold.
cpsat_solution(ls, slots, a) ==
  LET L == 1..Len(ls)
      S == 1..Len(slots)
  IN /\ \A l \in L : Cardinality(a[l]) = ls[l].hours_per_week
     /\ \A l1, l2 \in L :
          (l1 # l2 /\ ls[l1].class_id = ls[l2].class_id) => a[l1] \cap a[l2] = {}
     /\ \A t \in Teachers : \A s \in S :
          SumSeq([l \in L |-> IF slots[s].id \in a[l] THEN teacher_vars(ls[l], t) ELSE 0]) <= 1
     /\ \A t \in Teachers : \A s \in S : \A l \in L :
          (cpsat_unavailable(teachers[t].unavailable_slots, slots[s]) /\ teacher_vars(ls[l], t) > 0)
          => slots[s].id \notin a[l]
     /\ \A l \in L : \A s \in S :
          (/\ classes[ls[l].class_id].max_hours_per_day # 0
           /\ slots[s].period_number > classes[ls[l].class_id].max_hours_per_day)
          => slots[s].id \notin a[l]
     /\ \A l \in L : \A s \in S :
          cpsat_unavailable(classes[ls[l].class_id].unavailable_slots, slots[s])
          => slots[s].id \notin a[l]

cpsat_solutions(ls, slots) ==
  {a \in [1..Len(ls) -> SUBSET {slots[s].id : s \in 1..Len(slots)}] : cpsat_solution(ls, slots, a)}

\* the entries of one lesson, slot by slot, one per group
RECURSIVE cpsat_lesson_entries(_, _, _, _)
cpsat_lesson_entries(l, slots, chosen, s) ==
  IF s > Len(slots) THEN <<>>
  ELSE (IF slots[s].id \notin chosen THEN <<>>
        ELSE IF l.lesson_groups # <<>>
             THEN [g \in 1..Len(l.lesson_groups) |->
                     Entry(slots[s].id, l.id, l.lesson_groups[g].id, None)]
             ELSE <<Entry(slots[s].id, l.id, None, None)>>)
       \o cpsat_lesson_entries(l, slots, chosen, s + 1)

RECURSIVE cpsat_entries(_, _, _, _)
cpsat_entries(ls, slots, a, l) ==
  IF l > Len(ls) THEN <<>>
  ELSE cpsat_lesson_entries(ls[l], slots, a[l], 1) \o cpsat_entries(ls, slots, a, l + 1)

\* total_hours_assigned of a solution
cpsat_hours(ls, a) == SumSeq([l \in 1..Len(ls) |-> Cardinality(a[l])])

total_required(ls) == SumSeq([l \in 1..Len(ls) |-> ls[l].hours_per_week])

\* ------------------------------------------- generate_timetable (1073-1228)
\* One action per stretch of code between two awaits that reach the database.
\* `at` names the await a request is suspended in. The heuristic strategy has
\* no await: while it runs (pc # "idle") no request moves.
\* timetable.soft_constraint_score = 100 - (hard_violations * 10)  (1195)
soft_constraint_score(hv) == 100 - (hv * 10)

Passed == {"save", "delete", "load", "dispatch", "cpsat", "heuristic", "commit",
           "rollback", "fail"}

\* result = await db.execute(select(Timetable)...)  (1079-1081)
ReadTimetable(r) ==
  /\ pc = "idle"
  /\ req[r].at = "start"
  /\ req' = [req EXCEPT ![r].status = db_status, ![r].at = "gate"]
  /\ UNCHANGED <<algorithm, db_name, db_logs, db_result, db_status, db_entries, db_lessons, inputVars, schedVars>>

\* status not in [DRAFT, FAILED]: HTTP 400  (1090-1094)
GateRejects(r) ==
  /\ pc = "idle"
  /\ req[r].at = "gate"
  /\ req[r].status \notin {"draft", "failed"}
  /\ req' = [req EXCEPT ![r].at = "rejected"]
  /\ UNCHANGED <<algorithm, db_name, db_logs, db_result, db_status, db_entries, db_lessons, inputVars, schedVars>>

\* timetable.status = GENERATING; await db.commit()  (1090-1099)
GatePasses(r) ==
  /\ pc = "idle"
  /\ req[r].at = "gate"
  /\ req[r].status \in {"draft", "failed"}
  /\ db_status' = "generating"
  /\ req' = [req EXCEPT ![r].status = "generating", ![r].at = "save"]
  /\ UNCHANGED <<algorithm, db_name, db_logs, db_result, db_entries, db_lessons, inputVars, schedVars>>

\* await _save_distribution_patterns(timetable_id, db)  (1104)
SavePatterns(r) ==
  /\ pc = "idle"
  /\ req[r].at = "save"
  /\ db_lessons' = persisted_lessons(db_lessons, db_entries)
  /\ req' = [req EXCEPT ![r].saved = saved_patterns(db_entries), ![r].at = "delete"]
  /\ UNCHANGED <<algorithm, db_name, db_logs, db_result, db_status, db_entries, inputVars, schedVars>>

\* await db.execute(delete(TimetableEntry)...); await db.commit()  (1107-1108)
DeleteEntries(r) ==
  /\ pc = "idle"
  /\ req[r].at = "delete"
  /\ db_entries' = <<>>
  /\ req' = [req EXCEPT ![r].at = "load"]
  /\ UNCHANGED <<algorithm, db_name, db_logs, db_result, db_status, db_lessons, inputVars, schedVars>>

\* the loads of lessons, time slots and rooms, then the empty-input checks (1112-1171)
LoadData(r) ==
  /\ pc = "idle"
  /\ req[r].at = "load"
  /\ session_lessons(r) # <<>>
  /\ time_slots # <<>>
  /\ req' = [req EXCEPT ![r].lessons = session_lessons(r), ![r].at = "dispatch"]
  /\ UNCHANGED <<algorithm, db_name, db_logs, db_result, db_status, db_entries, db_lessons, inputVars, schedVars>>

\* `if not lessons` / `if not time_slots`: HTTPException inside the try (1160-1171)
LoadRaisesEmpty(r) ==
  /\ pc = "idle"
  /\ req[r].at = "load"
  /\ session_lessons(r) = <<>> \/ time_slots = <<>>
  /\ req' = [req EXCEPT ![r].error = TRUE, ![r].at = "rollback"]
  /\ UNCHANGED <<algorithm, db_name, db_logs, db_result, db_status, db_entries, db_lessons, inputVars, schedVars>>

\* the call of schedule_lessons_improved with every loaded slot (1183-1186)
HeuristicStarts(r) ==
  /\ pc = "idle"
  /\ req[r].at = "dispatch"
  /\ algorithm # "cpsat"
  /\ lessons' = req[r].lessons
  /\ pc' = "next"
  /\ cur' = 0
  /\ block_index' = 0
  /\ run' = NewRun
  /\ hard_violations' = 0
  /\ req' = [req EXCEPT ![r].at = "heuristic"]
  /\ UNCHANGED <<time_slots, rooms, classes, teachers, max_consecutive_same_subject,
                 auto, call, algorithm, db_name, db_logs, db_result, db_status, db_entries,
                 db_lessons>>

\* return assigned_count, hard_violations, logs (1318); the entries were
\* db.add()ed and wait in the session for the commit
HeuristicReturns(r) ==
  /\ pc = "done"
  /\ req[r].at = "heuristic"
  /\ req' = [req EXCEPT ![r].pending = run.entries,
                        ![r].assigned_count = run.assigned_count,
                        ![r].hard_violations = hard_violations,
                        ![r].at = "commit"]
  /\ pc' = "idle"
  /\ run' = NewRun
  /\ cur' = 0
  /\ block_index' = 0
  /\ hard_violations' = 0
  /\ UNCHANGED <<inputVars, algorithm, db_name, db_logs, db_result, db_status, db_entries, db_lessons>>

\* the UnboundLocalError of the grouped individual-slot pass reaches the driver
HeuristicRaises(r) ==
  /\ pc = "error"
  /\ req[r].at = "heuristic"
  /\ req' = [req EXCEPT ![r].pending = run.entries, ![r].error = TRUE, ![r].at = "rollback"]
  /\ pc' = "idle"
  /\ run' = NewRun
  /\ cur' = 0
  /\ block_index' = 0
  /\ hard_violations' = 0
  /\ UNCHANGED <<inputVars, algorithm, db_name, db_logs, db_result, db_status, db_entries, db_lessons>>

\* the call of schedule_with_cpsat and its loads (1176-1181, cpsat_scheduler.py 56-86)
CpsatLoads(r) ==
  /\ pc = "idle"
  /\ req[r].at = "dispatch"
  /\ algorithm = "cpsat"
  /\ req' = [req EXCEPT ![r].at = "cpsat"]
  /\ UNCHANGED <<algorithm, db_name, db_logs, db_result, db_status, db_entries, db_lessons, inputVars, schedVars>>

\* int(day_num_str) raises while the constraints are built (cpsat_scheduler.py 261, 353)
CpsatRaises(r) ==
  /\ pc = "idle"
  /\ req[r].at = "cpsat"
  /\ cpsat_raises
  /\ req' = [req EXCEPT ![r].error = TRUE, ![r].at = "rollback"]
  /\ UNCHANGED <<algorithm, db_name, db_logs, db_result, db_status, db_entries, db_lessons, inputVars, schedVars>>

\* solver status INFEASIBLE, or no answer within the time limit: return 0, 1, logs
\* (cpsat_scheduler.py 399-418)
CpsatGivesUp(r) ==
  /\ pc = "idle"
  /\ req[r].at = "cpsat"
  /\ ~cpsat_raises
  /\ req' = [req EXCEPT ![r].assigned_count = 0, ![r].hard_violations = 1, ![r].at = "commit"]
  /\ UNCHANGED <<algorithm, db_name, db_logs, db_result, db_status, db_entries, db_lessons, inputVars, schedVars>>

\* OPTIMAL or FEASIBLE: the solver returns some solution; entries are added and
\* flushed (cpsat_scheduler.py 399-410, 420-498)
CpsatSolves(r) ==
  /\ pc = "idle"
  /\ req[r].at = "cpsat"
  /\ ~cpsat_raises
  /\ \E a \in cpsat_solutions(req[r].lessons, lesson_slots) :
       req' = [req EXCEPT
                 ![r].pending = cpsat_entries(req[r].lessons, lesson_slots, a, 1),
                 ![r].assigned_count = cpsat_hours(req[r].lessons, a),
                 ![r].hard_violations =
                    IF cpsat_hours(req[r].lessons, a) = total_required(req[r].lessons)
                    THEN 0 ELSE 1,
                 ![r].at = "commit"]
  /\ UNCHANGED <<algorithm, db_name, db_logs, db_result, db_status, db_entries, db_lessons, inputVars, schedVars>>

\* variant: the status is COMPLETED whatever the strategy reported
CommitResult_always_completed(r) ==
  /\ pc = "idle"
  /\ req[r].at = "commit"
  /\ db_status' = "completed"
  /\ req' = [req EXCEPT ![r].status = "completed", ![r].pending = <<>>, ![r].at = "refresh"]
  /\ db_logs' = "run"
  /\ db_result' = [hard_constraint_violations |-> req[r].hard_violations,
                    soft_constraint_score |-> soft_constraint_score(req[r].hard_violations)]
  /\ db_entries' = db_entries \o req[r].pending
  /\ UNCHANGED <<algorithm, db_name, db_lessons, inputVars, schedVars>>

\* timetable.status = COMPLETED if hard_violations == 0 else FAILED; await db.commit()
\* (1188-1198)
CommitResult(r) ==
  /\ pc = "idle"
  /\ req[r].at = "commit"
  /\ LET status == IF req[r].hard_violations = 0 THEN "completed" ELSE "failed"
     IN /\ db_status' = status
        /\ req' = [req EXCEPT ![r].status = status, ![r].pending = <<>>, ![r].at = "refresh"]
  /\ db_logs' = "run"
  /\ db_result' = [hard_constraint_violations |-> req[r].hard_violations,
                    soft_constraint_score |-> soft_constraint_score(req[r].hard_violations)]
  /\ db_entries' = db_entries \o req[r].pending
  /\ UNCHANGED <<algorithm, db_name, db_lessons, inputVars, schedVars>>

\* await db.refresh(timetable); return {...}  (1199-1211)
RefreshAndReturn(r) ==
  /\ pc = "idle"
  /\ req[r].at = "refresh"
  /\ req' = [req EXCEPT ![r].status = db_status, ![r].at = "returned"]
  /\ UNCHANGED <<algorithm, db_name, db_logs, db_result, db_status, db_entries, db_lessons, inputVars, schedVars>>

\* the final `await db.commit()` raises: the entries the strategy added stay in
\* the session and control passes to the handler (1198, 1213)
CommitRaises(r) ==
  /\ pc = "idle"
  /\ req[r].at = "commit"
  /\ req' = [req EXCEPT ![r].error = TRUE, ![r].at = "rollback"]
  /\ UNCHANGED <<algorithm, db_name, db_logs, db_result, db_status, db_entries, db_lessons, inputVars, schedVars>>

\* variant: the handler does not roll the session back
Rollback_keeps_pending(r) ==
  /\ pc = "idle"
  /\ req[r].at = "rollback"
  /\ req' = [req EXCEPT ![r].at = "fail"]
  /\ UNCHANGED <<algorithm, db_name, db_logs, db_result, db_status, db_entries, db_lessons, inputVars, schedVars>>

\* except Exception: await db.rollback()  (1213-1220); the rollback empties the
\* session of the entries that were added or flushed but not committed
Rollback(r) ==
  /\ pc = "idle"
  /\ req[r].at = "rollback"
  /\ req' = [req EXCEPT ![r].pending = <<>>, ![r].at = "fail"]
  /\ UNCHANGED <<algorithm, db_name, db_logs, db_result, db_status, db_entries, db_lessons, inputVars, schedVars>>

\* timetable.status = FAILED; generation_logs = the error; await db.commit();
\* raise HTTPException(500)  (1221-1228); the commit writes what the session holds
MarkFailed(r) ==
  /\ pc = "idle"
  /\ req[r].at = "fail"
  /\ db_status' = "failed"
  /\ db_logs' = "error"
  /\ db_entries' = db_entries \o req[r].pending
  /\ req' = [req EXCEPT ![r].status = "failed", ![r].pending = <<>>, ![r].at = "raised"]
  /\ UNCHANGED <<algorithm, db_name, db_result, db_lessons, inputVars, schedVars>>

Request(r) ==
  \/ ReadTimetable(r) \/ GateRejects(r) \/ GatePasses(r) \/ SavePatterns(r)
  \/ DeleteEntries(r) \/ LoadData(r) \/ LoadRaisesEmpty(r)
  \/ HeuristicStarts(r) \/ HeuristicReturns(r) \/ HeuristicRaises(r)
  \/ CpsatLoads(r) \/ CpsatRaises(r) \/ CpsatGivesUp(r) \/ CpsatSolves(r)
  \/ CommitResult(r) \/ CommitRaises(r) \/ RefreshAndReturn(r) \/ Rollback(r) \/ MarkFailed(r)

\* ------------------------------------------------ bounded inputs of the driver
\* ordinal keys, and day-name keys among them, on the plain grid
DriverUnavailable ==
  {[c1 |-> <<>>, t1 |-> <<<<"1", {2}>>, <<"2", {2}>>>>, t2 |-> <<>>],
   [c1 |-> <<<<"2", {2}>>>>, t1 |-> <<>>, t2 |-> <<<<"monday", {1, 2}>>, <<"2", {1}>>>>]}

DriverGrids == {PlainGrid, [brk |-> {<<"monday", 2>>}, cap |-> 8]}

DriverSchools ==
  {[rc |-> NoRooms, u |-> NoUnavailable, grid |-> g] : g \in DriverGrids}
  \cup {[rc |-> NoRooms, u |-> u, grid |-> PlainGrid] : u \in DriverUnavailable}

PlainSubject == [difficulty_level |-> 5, default_distribution_format |-> <<>>, requires_room_type |-> None]

Ungrouped(t) == [teacher_id |-> t, groups |-> <<>>]

\* the last lesson was updated to num_groups = 3 and kept its two groups
\* (routes/lessons.py 240-290 writes the field alone)
DriverLessons ==
  {<<>>,
   <<MakeLesson(1, "c1", Ungrouped("t1"), MaxHours, PlainSubject),
     MakeLesson(2, "c1", [teacher_id |-> "t1", groups |-> <<"t1", "t2">>], 1, PlainSubject)>>,
   <<MakeLesson(1, "c1", Ungrouped("t1"), MaxHours, PlainSubject),
     MakeLesson(2, "c2", Ungrouped("t1"), MaxHours, PlainSubject)>>,
   <<MakeLesson(1, "c2", [teacher_id |-> "t2", groups |-> <<None, None>>], MaxHours, PlainSubject)>>,
   <<[MakeLesson(1, "c2", [teacher_id |-> "t1", groups |-> <<"t1", "t2">>], 1, PlainSubject)
        EXCEPT !.num_groups = 3]>>,
   <<MakeLesson(1, "c1", Ungrouped("t2"), ManyHours, PlainSubject)>>}

\* entries a user placed by hand before the generation; the lesson they belong
\* to may have been deactivated since (routes/lessons.py 342)
PriorEntries == {<<>>, <<Entry(1, 1, None, None), Entry(2, 1, None, None)>>}

\* CP-SAT is dispatched to on the schools that constrain it: a break slot, an
\* unavailability, or no slot at all
InitDriver ==
  /\ \E sc \in DriverSchools :
       /\ time_slots \in {MakeSlots(sc.grid.brk)} \cup (IF sc.u = NoUnavailable THEN {<<>>} ELSE {})
       /\ rooms = sc.rc.rooms
       /\ classes = SchoolClasses(sc)
       /\ teachers = SchoolTeachers(sc)
       /\ algorithm \in {"greedy"} \cup (IF sc.u = NoUnavailable /\ sc.grid = PlainGrid /\ time_slots # <<>>
                                          THEN {} ELSE {"cpsat"})
  /\ max_consecutive_same_subject = 2
  /\ auto = NoAuto
  /\ call = NoCall
  /\ db_lessons \in DriverLessons
  /\ lessons = db_lessons
  /\ db_entries \in PriorEntries
  /\ time_slots = <<>> => db_entries = <<>>
  /\ db_status \in {"draft", "completed"}
  /\ db_logs = None
  /\ db_result = [hard_constraint_violations |-> 0, soft_constraint_score |-> 0]
  /\ db_name = "a"
  /\ req = [r \in Requests |-> NewRequest]
  /\ pc = "idle"
  /\ cur = 0
  /\ block_index = 0
  /\ run = NewRun
  /\ hard_violations = 0

NextDriver == (\E r \in Requests : Request(r)) \/ NextSched
SpecDriver == InitDriver /\ [][NextDriver]_vars

\* ---------------------------------------------------- reading the emitted entries
E == run.entries
EntryIdx == 1..Len(E)

LessonById(id) == lessons[CHOOSE i \in 1..Len(lessons) : lessons[i].id = id]

GroupOf(e) ==
  LET l == LessonById(e.lesson_id)
  IN l.lesson_groups[CHOOSE i \in 1..Len(l.lesson_groups) : l.lesson_groups[i].id = e.lesson_group_id]

\* the group's teacher or, if the group has none, the lesson's teacher
RelevantTeacher(e) ==
  IF e.lesson_group_id # None /\ GroupOf(e).teacher_id # None
  THEN GroupOf(e).teacher_id
  ELSE LessonById(e.lesson_id).teacher_id

\* the slots at which a lesson has an entry
SlotsOfLesson(id) == {E[i].time_slot_id : i \in {j \in EntryIdx : E[j].lesson_id = id}}

\* the day a key of a stored unavailable_slots mapping denotes: a day name in
\* any letter case, or an ordinal string where "1" is Monday
DayOfKey(k) ==
  CASE k \in {"1", "monday", "Monday", "MONDAY"} -> "monday"
    [] k \in {"2", "tuesday", "Tuesday", "TUESDAY"} -> "tuesday"
    [] k \in {"3", "wednesday", "Wednesday", "WEDNESDAY"} -> "wednesday"
    [] OTHER -> "other"

\* the (day, period) pairs a stored mapping makes unavailable
UnavailableSet(stored) ==
  UNION {{<<DayOfKey(stored[i][1]), p>> : p \in stored[i][2]} : i \in 1..Len(stored)}

SlotDayPeriod(slot_id) == <<SlotById(slot_id).day, SlotById(slot_id).period_number>>

\* ------------------------------------------------------------------- C1
\* C1: in the entries of a finished heuristic run, for every class and slot at
\* most one lesson of that class has an entry at the slot.
C1_ClassExclusive ==
  pc = "done" =>
    \A i, j \in EntryIdx :
      (/\ E[i].time_slot_id = E[j].time_slot_id
       /\ LessonById(E[i].lesson_id).class_id = LessonById(E[j].lesson_id).class_id)
      => E[i].lesson_id = E[j].lesson_id

\* ------------------------------------------------------------------- C2
\* C2: for every grouped lesson and every slot at which any of its groups has
\* an entry, each of its groups has exactly one entry at that slot.
C2_GroupSynchrony ==
  pc = "done" =>
    \A li \in 1..Len(lessons) :
      has_groups(lessons[li]) =>
        \A s \in SlotsOfLesson(lessons[li].id) :
          \A g \in 1..Len(lessons[li].lesson_groups) :
            Cardinality({i \in EntryIdx :
                           /\ E[i].lesson_id = lessons[li].id
                           /\ E[i].time_slot_id = s
                           /\ E[i].lesson_group_id = lessons[li].lesson_groups[g].id}) = 1

\* ------------------------------------------------------------------- C3
\* C3: for every room and slot at most one emitted entry has that room.
C3_RoomExclusive ==
  pc = "done" =>
    \A i, j \in EntryIdx :
      (i # j /\ E[i].room_id # None /\ E[i].time_slot_id = E[j].time_slot_id)
      => E[i].room_id # E[j].room_id

\* ------------------------------------------------------------------- C4
\* C4: for every teacher and slot at most one entry has that teacher as its
\* relevant teacher.
C4_TeacherExclusive ==
  pc = "done" =>
    \A i, j \in EntryIdx :
      (i # j /\ RelevantTeacher(E[i]) # None /\ E[i].time_slot_id = E[j].time_slot_id)
      => RelevantTeacher(E[i]) # RelevantTeacher(E[j])

\* ------------------------------------------------------------------- C5
RECURSIVE ShortageSum(_)
ShortageSum(i) ==
  IF i = 0 THEN 0
  ELSE (lessons[i].hours_per_week - Cardinality(SlotsOfLesson(lessons[i].id))) + ShortageSum(i - 1)

\* C5: after a run every lesson occupies at most hours_per_week distinct slots
\* and hard_violations is the sum over the lessons of the missing hours.
C5_HourAccounting ==
  pc = "done" =>
    /\ \A li \in 1..Len(lessons) :
         Cardinality(SlotsOfLesson(lessons[li].id)) <= lessons[li].hours_per_week
    /\ hard_violations = ShortageSum(Len(lessons))

\* ------------------------------------------------------------------- C6
\* C6: no entry of a lesson of class c lies at a slot whose period_number is
\* greater than c.max_hours_per_day.
C6_ClassDailyCap ==
  \A i \in EntryIdx :
    SlotById(E[i].time_slot_id).period_number
      <= classes[LessonById(E[i].lesson_id).class_id].max_hours_per_day

C8_NoBreakEntries ==
  [][/\ \A i \in (Len(db_entries) + 1)..Len(db_entries') :
          ~SlotById(db_entries'[i].time_slot_id).is_break
     /\ \A i \in 1..Len(run'.entries) :
          ~SlotById(run'.entries[i].time_slot_id).is_break]_vars

\* a request has returned and its entries are stored, on a grid with a break slot
C8_Witness ==
  /\ \E i \in 1..Len(time_slots) : time_slots[i].is_break
  /\ \E r \in Requests : req[r].at = "returned"
  /\ db_entries # <<>>

\* ------------------------------------------------------------------- C9
\* C9: under every interleaving of the requests on one timetable at most one
\* of them is past the status gate and has not yet committed its final status:
\* two generations never run concurrently.
C9_NoConcurrentGenerations ==
  Cardinality({r \in Requests : req[r].at \in Passed}) <= 1

C12_EmptyInputRejected ==
  [][\A r \in Requests :
       (req'[r] # req[r] /\ (db_lessons = <<>> \/ time_slots = <<>>))
       => /\ db_entries' = db_entries
          /\ req'[r].at \notin {"heuristic", "cpsat"}]_vars

\* ------------------------------------------------------------------ C13
\* the distinct slots a lesson occupies in a sequence of entries
SlotsIn(entries, id) ==
  {entries[i].time_slot_id : i \in {j \in 1..Len(entries) : entries[j].lesson_id = id}}

\* C13: when a generation that used CP-SAT commits its result, either the
\* strategy returned violations = 0 with entries in which every lesson has
\* exactly hours_per_week distinct slots and the status becomes completed, or
\* it returned violations = 1 without any entry, the commit stores no entry
\* and the status becomes failed.
C13_CpsatAllOrNothing ==
  [][\A r \in Requests :
       (algorithm = "cpsat" /\ req[r].at = "commit" /\ req'[r].at = "refresh")
       => \/ /\ req[r].hard_violations = 0
             /\ \A l \in 1..Len(req[r].lessons) :
                  Cardinality(SlotsIn(req[r].pending, req[r].lessons[l].id))
                    = req[r].lessons[l].hours_per_week
             /\ db_status' = "completed"
          \/ /\ req[r].hard_violations = 1
             /\ req[r].pending = <<>>
             /\ db_entries' = db_entries
             /\ db_status' = "failed"]_vars

\* one CP-SAT generation found no solution in time and left the timetable
\* failed and empty, a later one solved and stored all hours of every lesson
C13_Witness ==
  /\ algorithm = "cpsat"
  /\ \E r1, r2 \in Requests :
       /\ req[r1].at = "returned" /\ req[r1].hard_violations = 1 /\ req[r1].assigned_count = 0
       /\ req[r2].at = "returned" /\ req[r2].hard_violations = 0
       /\ req[r2].assigned_count = total_required(req[r2].lessons)
       /\ req[r2].assigned_count > 0
  /\ db_status = "completed"
  /\ db_entries # <<>>

\* ------------------------------------------------------------------ C14
\* C14: in the entries the CP-SAT strategy emitted for a request, for every
\* teacher and slot at most one entry has that teacher as its relevant teacher
\* (the group's teacher or, if the group has none, the lesson's teacher).
C14_CpsatTeacherExclusive ==
  algorithm = "cpsat" =>
    \A r \in Requests :
      \A i, j \in 1..Len(req[r].pending) :
        (/\ i # j
         /\ RelevantTeacher(req[r].pending[i]) # None
         /\ req[r].pending[i].time_slot_id = req[r].pending[j].time_slot_id)
        => RelevantTeacher(req[r].pending[i]) # RelevantTeacher(req[r].pending[j])

\* ------------------------------------------------------------------ C15
\* C15: the CP-SAT strategy emits no entry at a (day, period) that the stored
\* unavailable_slots of the lesson's class or of the entry's relevant teacher
\* makes unavailable, whether the mapping is keyed by day names or by ordinal
\* strings, and building its constraints never raises.
C15_CpsatUnavailability ==
  [][algorithm = "cpsat" =>
       \A r \in Requests :
         /\ req[r].at = "cpsat" => req'[r].at # "rollback"
         /\ \A i \in 1..Len(req'[r].pending) :
              LET e == req'[r].pending[i]
              IN /\ SlotDayPeriod(e.time_slot_id)
                      \notin UnavailableSet(classes[LessonById(e.lesson_id).class_id].unavailable_slots)
                 /\ RelevantTeacher(e) # None =>
                      SlotDayPeriod(e.time_slot_id)
                        \notin UnavailableSet(teachers[RelevantTeacher(e)].unavailable_slots)]_vars

\* ------------------------------------------- heuristic runs with given patterns
\* the distribution patterns of h hours: descending parts that sum to h
PatternsFor(h) ==
  {[i \in 1..Len(q) |-> ToString(q[i])] :
     q \in {q \in UNION {[1..n -> 1..h] : n \in 1..h} :
              /\ SumSeq(q) = h
              /\ \A i \in 1..(Len(q) - 1) : q[i] >= q[i + 1]}}

PatternStaff ==
  {Ungrouped("t1"), Ungrouped("t2"), [teacher_id |-> "t1", groups |-> <<"t1", "t2">>]}

\* lessons that carry a lesson-level pattern, none, or one that int() rejects;
\* a lesson of four hours in two blocks; lessons limited to one hour a day; a
\* lesson whose pattern covers one of its three hours (routes/lessons.py 147-148
\* stores the string as given)
PatternLessonChoices(id) ==
  UNION {{[MakeLesson(id, cl, st, h, PlainSubject) EXCEPT !.user_distribution_pattern = pat] :
            cl \in Classes, st \in PatternStaff, pat \in PatternsFor(h) \cup {<<>>, <<"x">>}} :
         h \in 1..MaxHours}
  \cup {[MakeLesson(id, "c1", Ungrouped("t1"), 4, PlainSubject)
          EXCEPT !.user_distribution_pattern = <<"2", "2">>]}
  \cup {[MakeLesson(id, "c1", st, 2, PlainSubject)
          EXCEPT !.user_distribution_pattern = pat, !.max_hours_per_day = 1] :
          st \in PatternStaff, pat \in {<<>>, <<"2">>}}
  \cup {[MakeLesson(id, "c1", Ungrouped("t1"), 3, PlainSubject)
          EXCEPT !.user_distribution_pattern = <<"1">>]}

PatternUnavailable ==
  {NoUnavailable,
   [c1 |-> <<<<"2", {2}>>>>, t1 |-> <<>>, t2 |-> <<<<"monday", {1, 2}>>, <<"2", {1}>>>>],
   [c1 |-> <<>>, t1 |-> <<<<"1", {2}>>, <<"2", {2}>>>>, t2 |-> <<>>]}

InitPattern ==
  /\ lessons \in {ls \in [LessonIds -> UNION {PatternLessonChoices(i) : i \in LessonIds}] :
                    \A i \in LessonIds : ls[i].id = i}
  /\ \E u \in PatternUnavailable :
       LET sc == [rc |-> NoRooms, u |-> u, grid |-> PlainGrid]
       IN /\ time_slots = MakeSlots(sc.grid.brk)
          /\ rooms = sc.rc.rooms
          /\ classes = SchoolClasses(sc)
          /\ teachers = SchoolTeachers(sc)
  /\ max_consecutive_same_subject \in MaxConsecutiveChoices
  /\ auto = NoAuto
  /\ call = NoCall
  /\ InitSched
  /\ InitNoDriver

SpecPattern == InitPattern /\ [][NextSched]_vars

\* ------------------------------------------------------------------ C16
\* the teachers a lesson occupies at each of its slots
TeachersOf(l) ==
  (IF l.lesson_groups # <<>>
   THEN {IF l.lesson_groups[g].teacher_id # None THEN l.lesson_groups[g].teacher_id
         ELSE l.teacher_id : g \in 1..Len(l.lesson_groups)}
   ELSE {l.teacher_id}) \ {None}

\* the per-day numbers of slots of a set of slots, descending, as numerals
PatternOfSlots(S) ==
  LET per_day == [i \in 1..7 |-> Cardinality({id \in S : SlotById(id).day = WeekDays[i]})]
      block_sizes == SortDescInt(SelectSeq(per_day, LAMBDA n : n > 0))
  IN [i \in 1..Len(block_sizes) |-> ToString(block_sizes[i])]

\* the slots of each day are one run of consecutive periods
Contiguous(S) ==
  \A x, y \in S :
    (SlotById(x).day = SlotById(y).day /\ SlotById(x).period_number < SlotById(y).period_number)
    => \A z \in 1..Len(time_slots) :
         (/\ time_slots[z].day = SlotById(x).day
          /\ time_slots[z].period_number > SlotById(x).period_number
          /\ time_slots[z].period_number < SlotById(y).period_number)
         => time_slots[z].id \in S

\* a places every lesson at hours_per_week slots that are no breaks and are
\* available to its class and teachers, no class and no teacher twice at a
\* slot, and every lesson that carries a pattern realises it in blocks
Realises(a) ==
  /\ \A l \in DOMAIN lessons :
       /\ Cardinality(a[l]) = lessons[l].hours_per_week
       /\ \A id \in a[l] :
            /\ ~SlotById(id).is_break
            /\ SlotDayPeriod(id) \notin UnavailableSet(classes[lessons[l].class_id].unavailable_slots)
            /\ \A t \in TeachersOf(lessons[l]) :
                 SlotDayPeriod(id) \notin UnavailableSet(teachers[t].unavailable_slots)
       /\ lessons[l].user_distribution_pattern # <<>>
            => /\ PatternOfSlots(a[l]) = lessons[l].user_distribution_pattern
               /\ Contiguous(a[l])
  /\ \A l1, l2 \in DOMAIN lessons :
       (/\ l1 # l2
        /\ \/ lessons[l1].class_id = lessons[l2].class_id
           \/ TeachersOf(lessons[l1]) \cap TeachersOf(lessons[l2]) # {})
       => a[l1] \cap a[l2] = {}

PlacementExists ==
  \E a \in [DOMAIN lessons -> SUBSET {time_slots[i].id : i \in 1..Len(time_slots)}] : Realises(a)

\* C16: when every lesson can be placed under the hard constraints with each
\* given lesson-level pattern realised, the pattern extracted from the entries
\* a finished heuristic run emitted for a lesson that carries pattern P is P.
C16_PatternRoundTrip ==
  (pc = "done" /\ PlacementExists) =>
    \A l \in DOMAIN lessons :
      lessons[l].user_distribution_pattern # <<>>
      => /\ lessons[l].id \in LessonsWithEntries(E)
         /\ analyzed_pattern(E, lessons[l].id) = lessons[l].user_distribution_pattern

\* ------------------------------------------------------------------ C17
\* C17: when a generation extracts the patterns of the prior timetable, every
\* lesson that has an entry receives the per-day numbers of distinct occupied
\* periods, descending; a slot with several group entries of the lesson
\* counts once.
C17_ExtractorCountsPeriods ==
  [][\A r \in Requests :
       (req[r].at = "save" /\ req'[r].at = "delete")
       => /\ DOMAIN req'[r].saved = LessonsWithEntries(db_entries)
          /\ \A id \in LessonsWithEntries(db_entries) :
               req'[r].saved[id] = PatternOfSlots(SlotsIn(db_entries, id))]_vars

\* ------------------------------------------------------------------ C18
\* the parts of a pattern are numerals of integers >= 1 in descending order
\* that sum to hours
WellFormedPattern(pattern, hours) ==
  /\ Parses(pattern)
  /\ LET parts == [i \in 1..Len(pattern) |-> IntOf[pattern[i]]]
     IN /\ \A i \in 1..Len(parts) : parts[i] >= 1
        /\ \A i \in 1..(Len(parts) - 1) : parts[i] >= parts[i + 1]
        /\ SumSeq(parts) = hours

\* C18: every pattern the extractor writes onto a lesson is well formed for
\* that lesson: integer parts >= 1, descending, summing to its
\* hours_per_week, also for a partially populated prior timetable and for a
\* grouped lesson.
C18_ExtractedPatternWellFormed ==
  [][\A r \in Requests :
       (req[r].at = "save" /\ req'[r].at = "delete")
       => \A i \in 1..Len(db_lessons) :
            db_lessons[i].id \in DOMAIN req'[r].saved
            => WellFormedPattern(req'[r].saved[db_lessons[i].id],
                                 db_lessons[i].hours_per_week)]_vars

GroupCountMismatch(ls) ==
  \E i \in 1..Len(ls) : ls[i].num_groups > 1 /\ Len(ls[i].lesson_groups) # ls[i].num_groups

\* C20: while a lesson of the school has a group-count mismatch, no generation
\* request reaches a strategy and no entry is emitted, whichever strategy the
\* timetable selects.
C20_GroupCountMismatchAborts ==
  [][GroupCountMismatch(db_lessons) =>
       /\ \A r \in Requests :
            /\ req'[r].at \notin {"heuristic", "cpsat"}
            /\ req'[r].pending = <<>>
       /\ run'.entries = <<>>]_vars

\* ------------------------------------------------------------------ C21
\* the selected pattern of a lesson is not a list of integers >= 1
PatternUnparseable(l) ==
  /\ selected_pattern(l) # <<>>
  /\ \/ ~Parses(selected_pattern(l))
     \/ \E i \in 1..Len(selected_pattern(l)) : IntOf[selected_pattern(l)[i]] < 1

\* C21: when the pattern selected for some lesson cannot be parsed, the
\* heuristic run emits no entry for any lesson.
C21_UnparseablePatternAborts ==
  (\E l \in DOMAIN lessons : PatternUnparseable(lessons[l])) => E = <<>>

\* C22: the generation's final commit stores soft_constraint_score equal to
\* max(0, 100 - 10 * hard_constraint_violations), a value in 0..100.
C22_ScoreClamped ==
  [][\A r \in Requests :
       (req[r].at = "commit" /\ req'[r].at = "refresh") =>
         /\ db_result'.soft_constraint_score =
              (IF 100 - 10 * db_result'.hard_constraint_violations > 0
               THEN 100 - 10 * db_result'.hard_constraint_violations ELSE 0)
         /\ db_result'.soft_constraint_score \in 0..100]_vars

\* ------------------------------------------------------------------ C23
\* the slots one iteration of the pattern loop added for the current lesson
PlacedByStep == {x[2] : x \in run'.via \ run.via}

\* S is a run of adjacent elements of the day's list of slots ordered by period
AdjacentInDay(S, day) ==
  \E i \in 1..Len(slots_by_day(day)) :
    /\ i + Cardinality(S) - 1 <= Len(slots_by_day(day))
    /\ S = {slots_by_day(day)[j].id : j \in i..(i + Cardinality(S) - 1)}

PatternBlockStep == pc = "pattern" /\ PatternLoopRuns /\ block_index' = block_index + 1

\* the slots of lesson id that the pattern phase placed on the day
PatternSlotsOn(id, day) ==
  {x[2] : x \in {y \in run.via : y[1] = id /\ y[3] = "pattern" /\ SlotById(y[2]).day = day}}

AllByPattern(id) ==
  Cardinality({x \in run.via : x[1] = id /\ x[3] = "pattern"}) = LessonById(id).hours_per_week

PeriodsOn(id, day) ==
  {SlotById(x).period_number : x \in {y \in SlotsOfLesson(id) : SlotById(y).day = day}}

\* the length of the longest run of consecutive numbers in P
LongestRun(P) ==
  IF P = {} THEN 0
  ELSE CHOOSE n \in 1..Cardinality(P) :
         /\ \E a \in P : \A k \in 0..(n - 1) : a + k \in P
         /\ ~\E a \in P : \A k \in 0..n : a + k \in P

\* C24: in the output of a finished run no lesson occupies, on any day, more
\* than max_consecutive_same_subject consecutive period numbers.
C24_ConsecutiveCap ==
  pc = "done" =>
    \A l \in DOMAIN lessons : \A day \in DaySet :
      LongestRun(PeriodsOn(lessons[l].id, day)) <= max_consecutive_same_subject

\* ------------------------------------------------------------------ C25
\* C25: in the output of a finished run a lesson whose max_hours_per_day is
\* set occupies at most that many slots on any single day.
C25_LessonDailyCap ==
  pc = "done" =>
    \A l \in DOMAIN lessons : \A day \in DaySet :
      lessons[l].max_hours_per_day # NoneInt =>
        Cardinality({x \in SlotsOfLesson(lessons[l].id) : SlotById(x).day = day})
          <= lessons[l].max_hours_per_day

\* ------------------------------------------------------------------ C26
IndividualPassStep == pc = "pattern" /\ ~PatternLoopRuns /\ pc' = "finish"

\* C26: when the pattern phase placed an hour of an ungrouped lesson, every
\* hour the individual-slot pass adds lies on a day that held no hour of the
\* lesson before the pass, and no two of the added hours share a day.
C26_FallbackOnFreshDays ==
  [][(/\ IndividualPassStep
      /\ ~has_groups(lesson)
      /\ \E x \in run.via : x[1] = lesson.id /\ x[3] = "pattern")
     => /\ \A id \in PlacedByStep : \A x \in run.via :
             x[1] = lesson.id => SlotById(x[2]).day # SlotById(id).day
        /\ \A a, b \in PlacedByStep : a # b => SlotById(a).day # SlotById(b).day]_vars

\* ------------------------------------- the automatic pattern, step by step
MaxAutoHours == 5       \* hours_per_week ranges over 1..MaxAutoHours
\* algorithm_parameters is free-form JSON: any integer can be configured
ConfiguredMaxConsecutive == (0 - 2)..(MaxAutoHours + 1)
\* iterations followed; a loop that ends needs at most hours_per_week of them
MaxIterations == MaxAutoHours + 2

\* no run of the scheduler is under way and none starts
NoSchedulerRun ==
  /\ time_slots = <<>>
  /\ lessons = <<>>
  /\ rooms = <<>>
  /\ classes = SchoolClasses([rc |-> NoRooms, u |-> NoUnavailable, grid |-> PlainGrid])
  /\ teachers = SchoolTeachers([rc |-> NoRooms, u |-> NoUnavailable, grid |-> PlainGrid])
  /\ max_consecutive_same_subject = 2
  /\ InitSched
  /\ InitNoDriver

\* preferred_block_sizes = []; remaining_hours = hours_needed; block_size = min(...)  (620-622)
InitAuto ==
  /\ \E h \in 1..MaxAutoHours, m \in ConfiguredMaxConsecutive :
       auto = [pc |-> "while", hours_needed |-> h, max_consecutive |-> m,
               remaining_hours |-> h, block_size |-> Min(m, h),
               preferred_block_sizes |-> <<>>]
  /\ call = NoCall
  /\ NoSchedulerRun

autoOthers ==
  <<time_slots, lessons, rooms, classes, teachers, max_consecutive_same_subject, call,
    schedVars, driverVars>>

\* while remaining_hours > 0: if remaining_hours >= block_size: ...  (624-627)
AutoAppendBlock ==
  /\ auto.pc = "while"
  /\ auto.remaining_hours > 0
  /\ auto.remaining_hours >= auto.block_size
  /\ Len(auto.preferred_block_sizes) < MaxIterations
  /\ auto' = [auto EXCEPT !.preferred_block_sizes = Append(@, auto.block_size),
                          !.remaining_hours = @ - auto.block_size]
  /\ UNCHANGED autoOthers

\* else: append(remaining_hours); remaining_hours = 0  (624, 628-630)
AutoAppendRest ==
  /\ auto.pc = "while"
  /\ auto.remaining_hours > 0
  /\ auto.remaining_hours < auto.block_size
  /\ Len(auto.preferred_block_sizes) < MaxIterations
  /\ auto' = [auto EXCEPT !.preferred_block_sizes = Append(@, auto.remaining_hours),
                          !.remaining_hours = 0]
  /\ UNCHANGED autoOthers

\* the loop condition is false: sorted(..., reverse=True)  (624, 633)
AutoReturn ==
  /\ auto.pc = "while"
  /\ auto.remaining_hours <= 0
  /\ auto' = [auto EXCEPT !.pc = "returned",
                          !.preferred_block_sizes = SortDescInt(@)]
  /\ UNCHANGED autoOthers

NextAuto == AutoAppendBlock \/ AutoAppendRest \/ AutoReturn

\* the loop runs in one coroutine and is never preempted for good
SpecAuto == InitAuto /\ [][NextAuto]_vars /\ WF_vars(NextAuto)

\* ------------------------------------------------------------------ C27
AutoPatternShape(blocks, hours, max_consecutive) ==
  /\ \A i \in 1..(Len(blocks) - 1) : blocks[i] >= blocks[i + 1]
  /\ \A i \in 1..Len(blocks) : blocks[i] >= 1 /\ blocks[i] <= max_consecutive
  /\ SumSeq(blocks) = hours
  /\ Cardinality({i \in 1..Len(blocks) : blocks[i] < blocks[1]}) <= 1

\* C27: for every hours_per_week >= 1 and every configured integer
\* max_consecutive_same_subject the generation of the automatic pattern ends:
\* every iteration of its loop leaves fewer hours to distribute, never less
\* than none, and the loop returns; what it returns is descending, has blocks between 1 and
\* max_consecutive_same_subject that sum to hours_per_week, and has at most one
\* block smaller than the others.
C27_AutoPatternTerminates ==
  /\ [][(auto.pc = "while" /\ auto'.pc = "while")
          => (auto'.remaining_hours < auto.remaining_hours /\ auto'.remaining_hours >= 0)]_vars
  /\ <>(auto.pc = "returned")
  /\ [](auto.pc = "returned" =>
          AutoPatternShape(auto.preferred_block_sizes, auto.hours_needed, auto.max_consecutive))

\* --------------------------------------- functions of the module on their own
callOthers ==
  <<time_slots, lessons, rooms, classes, teachers, max_consecutive_same_subject, auto,
    schedVars, driverVars>>

MaxScorePeriod == 8     \* period numbers 1..MaxScorePeriod of the scored slot

\* arg = <<difficulty_level, period>>
InitScore ==
  /\ \E difficulty_level \in 1..10, period \in 1..MaxScorePeriod :
       call = [fn |-> "calculate_slot_score", pc |-> "called",
               arg |-> <<difficulty_level, period>>, result |-> <<>>]
  /\ auto = NoAuto
  /\ NoSchedulerRun

\* the difficulty-based time-of-day statements of calculate_slot_score (366-389)
ScoreDifficultyTime ==
  /\ call.fn = "calculate_slot_score"
  /\ call.pc = "called"
  /\ call' = [call EXCEPT !.pc = "returned",
                          !.result = <<DifficultyTimeTerm(call.arg[1], call.arg[2])>>]
  /\ UNCHANGED callOthers

SpecScore == InitScore /\ [][ScoreDifficultyTime]_vars

\* ------------------------------------------------------------------ C28
DifficultyTimeTable(difficulty_level, period) ==
  IF difficulty_level >= 7
  THEN (IF period <= 3 THEN 40 ELSE IF period <= 5 THEN 10 ELSE 0 - 30)
  ELSE IF difficulty_level >= 4
  THEN (IF period <= 2 THEN 15 ELSE IF period <= 5 THEN 10 ELSE 0 - 10)
  ELSE (IF period <= 2 THEN 0 - 5 ELSE IF period <= 5 THEN 0 ELSE 15)

\* C28: for every difficulty 1..10 and every period the difficulty-vs-time term
\* of calculate_slot_score is the table's: 7 and above +40 at periods 1-3, +10
\* at 4-5, -30 from 6; 4 to 6 +15 at 1-2, +10 at 3-5, -10 from 6; 3 and below
\* -5 at 1-2, 0 at 3-5, +15 from 6.
C28_DifficultyTimeTable ==
  (call.fn = "calculate_slot_score" /\ call.pc = "returned")
    => call.result[1] = DifficultyTimeTable(call.arg[1], call.arg[2])

\* --------------------------------------------- normalize_unavailable_slots
NormalizeKeys == {"1", "2", "monday", "Monday", "MONDAY", "tuesday"}

\* stored mappings of at most two keys
NormalizeInputs ==
  LET items == NormalizeKeys \X (SUBSET Periods)
  IN {<<>>} \cup {<<i>> : i \in items}
     \cup {s \in {<<i, j>> : i \in items, j \in items} : s[1][1] # s[2][1]}

InitNormalize ==
  /\ \E stored \in NormalizeInputs :
       call = [fn |-> "normalize_unavailable_slots", pc |-> "called",
               arg |-> stored, result |-> <<>>]
  /\ auto = NoAuto
  /\ NoSchedulerRun

\* the items of a dict, in one of the orders the keys can stand in
ItemOrders(d) ==
  {s \in [1..Cardinality(DOMAIN d) -> {<<k, d[k]>> : k \in DOMAIN d}] :
     \A i, j \in 1..Cardinality(DOMAIN d) : i # j => s[i] # s[j]}

\* normalized = normalize_unavailable_slots(stored)
NormalizeOnce ==
  /\ call.fn = "normalize_unavailable_slots"
  /\ call.pc = "called"
  /\ call' = [call EXCEPT !.pc = "once",
                          !.result = <<normalize_unavailable_slots(call.arg)>>]
  /\ UNCHANGED callOthers

\* normalize_unavailable_slots(normalized)
NormalizeAgain ==
  /\ call.fn = "normalize_unavailable_slots"
  /\ call.pc = "once"
  /\ \E items \in ItemOrders(call.result[1]) :
       call' = [call EXCEPT !.pc = "twice",
                            !.result = Append(@, normalize_unavailable_slots(items))]
  /\ UNCHANGED callOthers

NextNormalize == NormalizeOnce \/ NormalizeAgain

SpecNormalize == InitNormalize /\ [][NextNormalize]_vars

\* ------------------------------------------------------------------ C29
\* C29: normalizing a normalized mapping changes nothing, and every (day,
\* period) pair of the stored mapping, under an ordinal key or a day name in
\* any case, is in the normalized mapping under the lowercase day name.
C29_NormalizeKeepsAll ==
  /\ (call.fn = "normalize_unavailable_slots" /\ call.pc = "twice")
       => call.result[2] = call.result[1]
  /\ (call.fn = "normalize_unavailable_slots" /\ call.pc \in {"once", "twice"})
       => \A i \in 1..Len(call.arg) : \A p \in call.arg[i][2] :
            /\ DayOfKey(call.arg[i][1]) \in DOMAIN call.result[1]
            /\ p \in call.result[1][DayOfKey(call.arg[i][1])]

\* ------------------------------------- the other operations on a timetable
\* the entries a client saves in bulk
BulkEntries == {<<>>, <<Entry(1, 1, None, None)>>}

apiOthers == <<algorithm, db_lessons, db_logs, db_result, req, inputVars, schedVars>>

\* create_bulk_entries: delete the entries, add the given ones, status DRAFT,
\* commit  (626-672)
create_bulk_entries ==
  /\ pc = "idle"
  /\ \E entries \in BulkEntries :
       \* time_slot_id is a foreign key: the slot exists
       /\ \A i \in 1..Len(entries) : entries[i].time_slot_id \in 1..Len(time_slots)
       /\ db_entries' = entries
  /\ db_status' = "draft"
  /\ UNCHANGED <<db_name, apiOthers>>

\* move_timetable_entries, move mode: the first entry goes to the target slot
\* (1240-1343)
MoveEntry ==
  /\ pc = "idle"
  /\ db_entries # <<>>
  /\ \E target \in {1, Len(time_slots)} :
       /\ target \in 1..Len(time_slots)
       /\ db_entries' = [db_entries EXCEPT ![1].time_slot_id = target]
  /\ UNCHANGED <<db_status, db_name, apiOthers>>

\* move_timetable_entries, swap mode: the first two entries exchange their slots
SwapEntries ==
  /\ pc = "idle"
  /\ Len(db_entries) >= 2
  /\ db_entries' = [db_entries EXCEPT ![1].time_slot_id = db_entries[2].time_slot_id,
                                      ![2].time_slot_id = db_entries[1].time_slot_id]
  /\ UNCHANGED <<db_status, db_name, apiOthers>>

\* update_timetable: name (and the other descriptive fields), commit  (392-426)
update_timetable ==
  /\ pc = "idle"
  /\ \E name \in {"a", "b"} : db_name' = name
  /\ UNCHANGED <<db_status, db_entries, apiOthers>>

\* one generation, by the first client, among the other operations
NextApi ==
  \/ Request(1) \/ NextSched
  \/ create_bulk_entries \/ MoveEntry \/ SwapEntries \/ update_timetable

SpecApi == InitDriver /\ [][NextApi]_vars

\* ------------------------------------------------------------------ C30
\* C30: while the timetable is in status generating, its status and its stored
\* entries change only in steps of a generation, and the status changes only
\* to completed or failed.
C30_GeneratingIsExclusive ==
  [][db_status = "generating" =>
       /\ db_status' # db_status => (req' # req /\ db_status' \in {"completed", "failed"})
       /\ db_entries' # db_entries => req' # req]_vars

====
